---- MODULE Spec2Model ----
(***************************************************************************)
(* Model of the PowerCasting chatbot's request pipeline:                   *)
(*   app.handle_chat -> response_router.get_response -> collaborator       *)
(*   handlers (plant_handler, banking_handler, procurement_handler,        *)
(*   response_handler.generate_response).                                  *)
(* Text is modelled character by character: a Python str is a TLA+ string  *)
(* (a sequence of characters) and the regular expressions of the source    *)
(* are operators over it.  The input alphabet is printable ASCII.          *)
(***************************************************************************)
EXTENDS Integers, Sequences, FiniteSets, TLC

(***************************************************************************)
(* Characters and elementary string functions (Python str / re semantics).  *)
(***************************************************************************)
None == "<None>"

Ch(s, i) == SubSeq(s, i, i)

CharsOf(s) == { Ch(s, i) : i \in 1..Len(s) }

LowerStr == "abcdefghijklmnopqrstuvwxyz"
UpperStr == "ABCDEFGHIJKLMNOPQRSTUVWXYZ"
DigitStr == "0123456789"

Lowers == CharsOf(LowerStr)
Uppers == CharsOf(UpperStr)
Digits == CharsOf(DigitStr)

\* \s of the re module, on the ASCII alphabet
IsSpace(c) == c \in {" ", "\t", "\n", "\r", "\f"}

\* \w of the re module, on the ASCII alphabet
IsWord(c) == c \in Lowers \cup Uppers \cup Digits \cup {"_"}

IsDigit(c) == c \in Digits

\* the character of s at position i, "" outside the string
At(s, i) == IF i >= 1 /\ i <= Len(s) THEN Ch(s, i) ELSE ""

\* \b between positions i and i+1 of s (0 <= i <= Len(s))
Boundary(s, i) == IsWord(At(s, i)) # IsWord(At(s, i + 1))

\* str.lower() of one character
LowerCh(c) ==
    IF c \in Uppers
    THEN Ch(LowerStr, CHOOSE i \in 1..Len(UpperStr) : Ch(UpperStr, i) = c)
    ELSE c

\* the concatenation of G(s, i) for i = lo..hi, in order (a character-wise
\* map over a string; split in halves to keep the evaluation shallow)
RECURSIVE CatMap(_, _, _, _)
CatMap(G(_, _), s, lo, hi) ==
    IF lo > hi THEN ""
    ELSE IF lo = hi THEN G(s, lo)
    ELSE LET mid == (lo + hi) \div 2
         IN CatMap(G, s, lo, mid) \o CatMap(G, s, mid + 1, hi)

\* least / greatest element of a non-empty set of integers
Min(S) == CHOOSE x \in S : \A y \in S : x <= y
Max(S) == CHOOSE x \in S : \A y \in S : x >= y

LowerAt(s, i) == LowerCh(Ch(s, i))

\* str.lower()
Lower(s) == IF s = "" THEN "" ELSE CatMap(LowerAt, s, 1, Len(s))

\* str.lstrip() / str.rstrip()
LStrip(s) ==
    IF s = "" THEN "" ELSE
    LET keep == { i \in 1..Len(s) : ~IsSpace(Ch(s, i)) }
    IN IF keep = {} THEN "" ELSE SubSeq(s, Min(keep), Len(s))

RStrip(s) ==
    IF s = "" THEN "" ELSE
    LET keep == { i \in 1..Len(s) : ~IsSpace(Ch(s, i)) }
    IN IF keep = {} THEN "" ELSE SubSeq(s, 1, Max(keep))

\* str.strip()
Strip(s) == IF s = "" THEN "" ELSE RStrip(LStrip(s))

\* p in s (Python substring test)
MatchAt(p, s, i) == i >= 1 /\ i + Len(p) - 1 <= Len(s) /\ SubSeq(s, i, i + Len(p) - 1) = p

Contains(p, s) == \E i \in 1..(Len(s) + 1) : MatchAt(p, s, i)

\* re.search(rf"\b{re.escape(p)}\b", s) succeeds at position i
WordMatchAt(p, s, i) ==
    MatchAt(p, s, i) /\ Boundary(s, i - 1) /\ Boundary(s, i + Len(p) - 1)

ContainsWord(p, s) == \E i \in 1..(Len(s) + 1) : WordMatchAt(p, s, i)

\* any(k in s for k in seq)
AnyIn(seq, s) == \E j \in 1..Len(seq) : Contains(seq[j], s)

\* re.sub(r"\s+", " ", s): every run of whitespace becomes one space
CollapseAt(s, i) ==
    IF ~IsSpace(Ch(s, i)) THEN Ch(s, i)
    ELSE IF IsSpace(At(s, i - 1)) THEN "" ELSE " "

CollapseWs(s) == IF s = "" THEN "" ELSE CatMap(CollapseAt, s, 1, Len(s))

\* str.replace(old, new): non-overlapping occurrences, left to right
RECURSIVE ReplaceLitFrom(_, _, _, _)
ReplaceLitFrom(s, old, new, i) ==
    LET hits == { p \in i..Len(s) : MatchAt(old, s, p) }
    IN IF hits = {} THEN SubSeq(s, i, Len(s))
       ELSE SubSeq(s, i, Min(hits) - 1) \o new
            \o ReplaceLitFrom(s, old, new, Min(hits) + Len(old))

ReplaceLit(s, old, new) == IF s = "" THEN "" ELSE ReplaceLitFrom(s, old, new, 1)

\* re.compile(rf"\b{re.escape(src)}\b").sub(dst, s), scanning from position i;
\* the boundaries are those of the string being scanned, as in re.sub
RECURSIVE WordSubFrom(_, _, _, _)
WordSubFrom(s, src, dst, i) ==
    LET hits == { p \in i..Len(s) : WordMatchAt(src, s, p) }
    IN IF hits = {} THEN SubSeq(s, i, Len(s))
       ELSE SubSeq(s, i, Min(hits) - 1) \o dst
            \o WordSubFrom(s, src, dst, Min(hits) + Len(src))

WordSub(s, src, dst) == IF s = "" THEN "" ELSE WordSubFrom(s, src, dst, 1)

(***************************************************************************)
(* static_qa.py: the static FAQ lookup.                                    *)
(***************************************************************************)
\* stable sort of a sequence of <<phrase, value>> pairs, longest phrase first
\* (sorted(..., key=len, reverse=True) / key=lambda x: -len(x[0]))
\* x[i] goes before x[j] in the stable sort: longer, or as long and earlier
SortsBefore(pairs, i, j) ==
    \/ Len(pairs[i][1]) > Len(pairs[j][1])
    \/ Len(pairs[i][1]) = Len(pairs[j][1]) /\ i < j

SortedLongestFirst(pairs) ==
    LET n == Len(pairs)
        rank(i) == Cardinality({ j \in 1..n : SortsBefore(pairs, j, i) }) + 1
    IN [ p \in 1..n |-> pairs[CHOOSE i \in 1..n : rank(i) = p] ]

\* keyword_map, in declaration order; the value is the key of static_qa
\* whose answer text is returned
keyword_map == <<
    <<"fuck you", "error">>,
    <<"hi", "Hi">>,
    <<"hello", "Hi">>,
    <<"hey", "Hi">>,
    <<"love you", "error">>,
    <<"explain about yourself", "Explain about yourself">>,
    <<"tell me about yourself", "Explain about yourself">>,
    <<"definition of mod", "what is the definition of mod">>,
    <<"what is iex", "what is iex">>,
    <<"what is mod", "what is the definition of mod">>,
    <<"definition of iex", "what is iex">>,
    <<"what is moment of dispatch price", "what is the definition of moment of dispatch price">>,
    <<"what is moment of dispatch rate", "what is the definition of moment of dispatch price">>,
    <<"what is indian energy exchange price", "what is the indian energy exchange price definition">>,
    <<"what is indian energy exchange rate", "what is the indian energy exchange price definition">>,
    <<"what is iex price", "what is the indian energy exchange price definition">>,
    <<"what is mod price", "what is the definition of moment of dispatch price">>,
    <<"what is mod rate", "what is the definition of moment of dispatch price">>,
    <<"what is iex rate", "what is the indian energy exchange price definition">>,
    <<"what is the definition of moment of dispatch price", "what is the definition of moment of dispatch price">>,
    <<"what is the definition of moment of dispatch rate", "what is the definition of moment of dispatch price">>,
    <<"what is the definition of indian energy exchange price", "what is the indian energy exchange price definition">>,
    <<"what is the definition of indian energy exchange rate", "what is the indian energy exchange price definition">>,
    <<"what is the definition of IEX rate", "what is the indian energy exchange price definition">>,
    <<"what is the definition of IEX price", "what is the indian energy exchange price definition">>,
    <<"what is the definition of MOD price", "what is the definition of moment of dispatch price">>,
    <<"what is the definition of MOD rate", "what is the definition of moment of dispatch price">>,
    <<"what is indian energy exchange price definition", "what is the indian energy exchange price definition">>,
    <<"what is indian energy exchange rate definition", "what is the indian energy exchange price definition">>,
    <<"what is moment of dispatch price definition", "what is the definition of moment of dispatch price">>,
    <<"what is moment of dispatch rate definition", "what is the definition of moment of dispatch price">>,
    <<"what is the definition of mod", "what is the definition of mod">>,
    <<"definition of moment of dispatch", "what is the definition of mod">>,
    <<"what is the definition of moment of dispatch", "what is the definition of mod">>,
    <<"what is the definition iex", "what is iex">>,
    <<"what is the definition indian energy exchange", "what is iex">>,
    <<"what is indian energy exchange", "what is iex">> >>

keyword_sorted == SortedLongestFirst(keyword_map)

\* re.sub(r'[^\w\s]', '', s)
StripPunctAt(s, i) == IF IsWord(Ch(s, i)) \/ IsSpace(Ch(s, i)) THEN Ch(s, i) ELSE ""

StripPunct(s) == IF s = "" THEN "" ELSE CatMap(StripPunctAt, s, 1, Len(s))

\* cleaned = re.sub(r'[^\w\s]', '', user_input.lower().strip())
static_cleaned(user_input) == IF user_input = "" THEN "" ELSE StripPunct(Strip(Lower(user_input)))

\* the test of the lookup loop: "if keyword in cleaned"
static_hit(keyword, cleaned) == Contains(keyword, cleaned)

\* match_static_qa: the answer of the first keyword, longest first, that hits
match_static_qa(user_input) ==
    LET cleaned == static_cleaned(user_input)
        hits == { j \in 1..Len(keyword_sorted) : static_hit(keyword_sorted[j][1], cleaned) }
    IN IF hits = {} THEN None
       ELSE keyword_sorted[CHOOSE j \in hits : \A k \in hits : j <= k][2]

(***************************************************************************)
(* nlp_setup.py: normalize and preprocess.                                 *)
(***************************************************************************)
REPLACEMENTS == <<
    <<"plant load factor", "plf">>,
    <<"plant availability factor", "paf">>,
    <<"auxiliary consumption", "aux consumption">>,
    <<"maximum power", "max power">>,
    <<"minimum power", "min power">>,
    <<"iex price", "iex price">>,
    <<"iex cost", "iex price">>,
    <<"iex rate", "iex price">>,
    <<"banked unit", "banking unit">>,
    <<"gen energy", "generated energy">>,
    <<"energy generated", "generated energy">>,
    <<"energy generation", "generated energy">>,
    <<"cost generated", "generated cost">> >>

TYPO_FIXES == <<
    <<"despatch", "dispatch">>,
    <<"dispatch value", "dispatch price">>,
    <<"exchng", "exchange">>,
    <<"mcp", "market clearing price">>,
    <<"purchse", "purchase">>,
    <<"bnking", "banking">>,
    <<"lod factor", "load factor">>,
    <<"availability factor", "plant availability factor">> >>

\* the loop of _apply_replacements over the sorted keys lo..hi, in order
\* (split in halves to keep the evaluation shallow)
RECURSIVE ApplyEach(_, _, _, _)
ApplyEach(t, pairs, lo, hi) ==
    IF t = "" \/ lo > hi THEN t
    ELSE IF lo = hi THEN WordSub(t, pairs[lo][1], pairs[lo][2])
    ELSE ApplyEach(ApplyEach(t, pairs, lo, (lo + hi) \div 2), pairs, (lo + hi) \div 2 + 1, hi)

\* _apply_replacements(text, repl): the text is already lowercase when it is
\* called, so re.IGNORECASE changes nothing
apply_replacements(text, repl) ==
    IF text = "" THEN "" ELSE
    Strip(CollapseWs(ApplyEach(text, SortedLongestFirst(repl), 1, Len(repl))))

\* index of the last character of the maximal run of digits starting at i
DigitsEnd(s, i) ==
    Max({ j \in i..Len(s) : \A k \in (i + 1)..j : IsDigit(Ch(s, k)) } \cup {i})

\* first index >= i that holds no whitespace
SkipWs(s, i) ==
    Min({ j \in i..(Len(s) + 1) : ~IsSpace(At(s, j)) } \cup {Len(s) + 1})

\* r"\b(\d+)\s*&\s*(\d+)\b" matches at position i of s; NumAmpEnd is the
\* index of the last character of the match.  A shorter \d+ never helps: it
\* is followed by a digit, neither \s, & nor a boundary.
NumAmpHit(s, i) ==
    LET j == DigitsEnd(s, i)
        k == SkipWs(s, j + 1)
        l == SkipWs(s, k + 1)
    IN /\ IsDigit(At(s, i)) /\ Boundary(s, i - 1)
       /\ At(s, k) = "&" /\ IsDigit(At(s, l)) /\ Boundary(s, DigitsEnd(s, l))

NumAmpRepl(s, i) ==
    LET j == DigitsEnd(s, i)
        l == SkipWs(s, SkipWs(s, j + 1) + 1)
    IN SubSeq(s, i, j) \o " and " \o SubSeq(s, l, DigitsEnd(s, l))

NumAmpEnd(s, i) == DigitsEnd(s, SkipWs(s, SkipWs(s, DigitsEnd(s, i) + 1) + 1))

\* re.sub(r"\b(\d+)\s*&\s*(\d+)\b", r"\1 and \2", s), scanning from i
RECURSIVE NumAmpFrom(_, _)
NumAmpFrom(s, i) ==
    IF s = "" THEN "" ELSE
    LET hits == { p \in i..Len(s) : NumAmpHit(s, p) }
    IN IF hits = {} THEN SubSeq(s, i, Len(s))
       ELSE SubSeq(s, i, Min(hits) - 1) \o NumAmpRepl(s, Min(hits))
            \o NumAmpFrom(s, NumAmpEnd(s, Min(hits)) + 1)

AllowAt(s, i) ==
    IF Ch(s, i) \in Lowers \cup Digits \cup {" ", ":", "/", "-", "&", "."}
    THEN Ch(s, i) ELSE " "

\* re.sub(r"[^a-z0-9 :/\-&.]", " ", s)
AllowList(s) == IF s = "" THEN "" ELSE CatMap(AllowAt, s, 1, Len(s))

\* normalize(text).  The replace() calls for the en dash, the em dash and the
\* curly apostrophe are the identity on the ASCII alphabet of the model.
normalize(text) ==
    IF text = "" THEN "" ELSE
    Strip(CollapseWs(AllowList(
        apply_replacements(
            apply_replacements(
                NumAmpFrom(Lower(ReplaceLit(ReplaceLit(Strip(text), "&amp;", "&"), "&amp", "&")), 1),
                REPLACEMENTS),
            TYPO_FIXES))))

plant_keywords == <<
    "plf", "paf", "variable cost", "aux consumption", "max power", "min power",
    "rated capacity", "type", "plant", "plant details", "auxiliary consumption",
    "technical minimum", "maximum power", "minimum power", "plant load factor",
    "plant availability factor", "aux usage", "auxiliary usage", "var cost" >>

procurement_keywords == <<
    "banking unit", "banking contribution", "banking", "banked unit",
    "generated energy", "procurement price", "generation energy", "energy generated",
    "energy generation", "demand banked", "energy", "produce", "banked",
    "energy banked", "generated cost", "generation cost", "cost generated", "cost generation",
    "power purchase cost", "ppc", "purchase cost", "last price" >>

all_keywords == plant_keywords \o procurement_keywords

\* preprocess(text)[1], the matched keywords.  tokenOk is FALSE when
\* word_tokenize raises (NLTK data missing): the except branch returns
\* ([], set()).  The token list is not modelled: no caller reads it.
preprocess(text, tokenOk) ==
    IF ~tokenOk THEN {}
    ELSE LET t == normalize(text)
         IN { all_keywords[j] : j \in { n \in 1..Len(all_keywords) : ContainsWord(all_keywords[n], t) } }

(***************************************************************************)
(* date_utils.py: explicit date and time extraction.                       *)
(***************************************************************************)
AllDigits(s, lo, hi) == lo >= 1 /\ hi <= Len(s) /\ \A k \in lo..hi : IsDigit(Ch(s, k))

DigitVal(c) == (CHOOSE i \in 1..Len(DigitStr) : Ch(DigitStr, i) = c) - 1

\* int(s) of a short string of digits
RECURSIVE ToInt(_)
ToInt(s) ==
    IF s = "" THEN 0
    ELSE ToInt(SubSeq(s, 1, Len(s) - 1)) * 10 + DigitVal(Ch(s, Len(s)))

Pad2(n) == Ch(DigitStr, ((n \div 10) % 10) + 1) \o Ch(DigitStr, (n % 10) + 1)

Pad4(n) == Pad2(n \div 100) \o Pad2(n % 100)

IsLeap(y) == (y % 4 = 0 /\ y % 100 # 0) \/ y % 400 = 0

DaysIn(y, m) ==
    IF m = 2 THEN (IF IsLeap(y) THEN 29 ELSE 28)
    ELSE IF m \in {4, 6, 9, 11} THEN 30 ELSE 31

\* datetime(y, m, d) is a valid calendar date
ValidDate(y, m, d) == y >= 1 /\ y <= 9999 /\ m >= 1 /\ m <= 12 /\ d >= 1 /\ d <= DaysIn(y, m)

\* date.isoformat()
IsoFormat(y, m, d) == Pad4(y) \o "-" \o Pad2(m) \o "-" \o Pad2(d)

\* _ORDINALS, r'(\b\d{1,2})(st|nd|rd|th)\b' with re.I, matches at i with n digits
OrdinalLens(s, i) ==
    { n \in {1, 2} :
        /\ Boundary(s, i - 1)
        /\ AllDigits(s, i, i + n - 1)
        /\ i + n + 1 <= Len(s)
        /\ Lower(SubSeq(s, i + n, i + n + 1)) \in {"st", "nd", "rd", "th"}
        /\ Boundary(s, i + n + 1) }

\* _ORDINALS.sub(r'\1', s), scanning from i
RECURSIVE OrdinalSubFrom(_, _)
OrdinalSubFrom(s, i) ==
    LET hits == { p \in i..Len(s) : OrdinalLens(s, p) # {} }
    IN IF hits = {} THEN SubSeq(s, i, Len(s))
       ELSE LET p == Min(hits)
                n == Max(OrdinalLens(s, p))
            IN SubSeq(s, i, p + n - 1) \o OrdinalSubFrom(s, p + n + 2)

\* re.sub(rf'\b{src}\b', dst, s, flags=re.I), scanning from i; low is s.lower()
RECURSIVE WordSubCIFrom(_, _, _, _, _)
WordSubCIFrom(s, low, src, dst, i) ==
    LET hits == { p \in i..Len(s) : WordMatchAt(src, low, p) }
    IN IF hits = {} THEN SubSeq(s, i, Len(s))
       ELSE SubSeq(s, i, Min(hits) - 1) \o dst
            \o WordSubCIFrom(s, low, src, dst, Min(hits) + Len(src))

WordSubCI(s, src, dst) == IF s = "" THEN "" ELSE WordSubCIFrom(s, Lower(s), src, dst, 1)

\* _clean(text)
clean(text) ==
    IF text = "" THEN "" ELSE
    WordSubCI(WordSubCI(OrdinalSubFrom(Strip(text), 1), "noon", "12:00 pm"),
              "midnight", "12:00 am")

\* _MONTHS: the spellings of each month, by month number
MonthNames == <<
    {"jan", "january"}, {"feb", "february"}, {"mar", "march"}, {"apr", "april"},
    {"may"}, {"jun", "june"}, {"jul", "july"}, {"aug", "august"},
    {"sep", "sept", "september"}, {"oct", "october"}, {"nov", "november"},
    {"dec", "december"} >>

AllMonthNames == UNION { MonthNames[m] : m \in 1..12 }

\* the lengths L for which _MONTHS matches low[i .. i+L-1]
MonthLens(low, i) == { Len(w) : w \in { x \in AllMonthNames : MatchAt(x, low, i) } }

\* "20\d{2}" at position i
Year20At(s, i) == MatchAt("20", s, i) /\ AllDigits(s, i + 2, i + 3)

\* The end index of the match of a date pattern starting at position i, as a
\* set (empty: no match at i).  Each \d{1,2} is greedy, but at most one length
\* lets the rest of the pattern match, so the set has at most one element.
\*   "ymd"  r'\b(20\d{2}[seps]\d{1,2}[seps]\d{1,2})\b'
YmdEnds(s, i, seps) ==
    { i + 5 + a + b : <<a, b>> \in
        { ab \in {1, 2} \X {1, 2} :
            /\ Boundary(s, i - 1) /\ Year20At(s, i)
            /\ At(s, i + 4) \in seps
            /\ AllDigits(s, i + 5, i + 4 + ab[1])
            /\ At(s, i + 5 + ab[1]) \in seps
            /\ AllDigits(s, i + 6 + ab[1], i + 5 + ab[1] + ab[2])
            /\ Boundary(s, i + 5 + ab[1] + ab[2]) } }

\*   "dmy"  r'\b(\d{1,2}[/-]\d{1,2}[/-]20\d{2})\b'
DmyEnds(s, i) ==
    { i + a + b + 5 : <<a, b>> \in
        { ab \in {1, 2} \X {1, 2} :
            /\ Boundary(s, i - 1)
            /\ AllDigits(s, i, i + ab[1] - 1)
            /\ At(s, i + ab[1]) \in {"/", "-"}
            /\ AllDigits(s, i + ab[1] + 1, i + ab[1] + ab[2])
            /\ At(s, i + ab[1] + ab[2] + 1) \in {"/", "-"}
            /\ Year20At(s, i + ab[1] + ab[2] + 2)
            /\ Boundary(s, i + ab[1] + ab[2] + 5) } }

\*   "Mdy"  rf'\b{_MONTHS}\s+\d{{1,2}},\s*20\d{{2}}\b'   (comma = TRUE)
\*          rf'\b{_MONTHS}\s+\d{{1,2}}\s+20\d{{2}}\b'    (comma = FALSE)
MdyEnds(s, low, i, comma) ==
    { SkipWs(s, SkipWs(s, i + la[1]) + la[2] + 1) + 3 : la \in
        { x \in MonthLens(low, i) \X {1, 2} :
            LET q == SkipWs(s, i + x[1])
                r == SkipWs(s, q + x[2] + 1)
            IN /\ Boundary(s, i - 1)
               /\ IsSpace(At(s, i + x[1]))
               /\ AllDigits(s, q, q + x[2] - 1)
               /\ IF comma THEN At(s, q + x[2]) = "," ELSE IsSpace(At(s, q + x[2]))
               /\ Year20At(s, r)
               /\ Boundary(s, r + 3) } }

\*   "dMy"  rf'\b\d{{1,2}}\s+{_MONTHS}\s+20\d{{2}}\b'
DMyEnds(s, low, i) ==
    { SkipWs(s, SkipWs(s, i + al[1]) + al[2]) + 3 : al \in
        { x \in {1, 2} \X { Len(w) : w \in AllMonthNames } :
            LET q == SkipWs(s, i + x[1])
                r == SkipWs(s, q + x[2])
            IN /\ Boundary(s, i - 1)
               /\ AllDigits(s, i, i + x[1] - 1)
               /\ IsSpace(At(s, i + x[1]))
               /\ x[2] \in MonthLens(low, q)
               /\ IsSpace(At(s, q + x[2]))
               /\ Year20At(s, r)
               /\ Boundary(s, r + 3) } }

\* _PATTERNS, in order (the list repeats itself; the seventh entry accepts
\* "/" as well as "-" after the year)
PATTERNS == << "iso", "dmy", "Mdy,", "Mdy", "dMy",
               "iso", "ymd", "dmy", "Mdy,", "Mdy", "dMy" >>

PatEnds(kind, s, low, i) ==
    CASE kind = "iso"  -> YmdEnds(s, i, {"-"})
      [] kind = "ymd"  -> YmdEnds(s, i, {"/", "-"})
      [] kind = "dmy"  -> DmyEnds(s, i)
      [] kind = "Mdy," -> MdyEnds(s, low, i, TRUE)
      [] kind = "Mdy"  -> MdyEnds(s, low, i, FALSE)
      [] kind = "dMy"  -> DMyEnds(s, low, i)

\* pat.search(t).group(0) for the pattern kind, None when there is no match
PatSearch(kind, t) ==
    LET low == Lower(t)
        hits == { i \in 1..Len(t) : PatEnds(kind, t, low, i) # {} }
    IN IF hits = {} THEN None
       ELSE SubSeq(t, Min(hits), Max(PatEnds(kind, t, low, Min(hits))))

\* the maximal runs of digits of s, as <<first, last>> index pairs
DigitRuns(s) ==
    { <<i, DigitsEnd(s, i)>> : i \in { k \in 1..Len(s) : IsDigit(Ch(s, k)) /\ ~IsDigit(At(s, k - 1)) } }

\* the n-th run of digits of s, as a string
NthRun(s, n) ==
    LET r == CHOOSE x \in DigitRuns(s) : Cardinality({ y \in DigitRuns(s) : y[1] < x[1] }) = n - 1
    IN SubSeq(s, r[1], r[2])

\* the month a matched date string names, 0 when it names none
MonthOf(low) ==
    LET ms == { m \in 1..12 : \E w \in MonthNames[m] : \E i \in 1..Len(low) :
                    MatchAt(w, low, i) /\ Boundary(low, i - 1) /\ Boundary(low, i + Len(w) - 1) }
    IN IF ms = {} THEN 0 ELSE Min(ms)

\* dateutil's resolution of the year, month and day of a matched date string
\* under parser.parse(date_str, dayfirst=True, fuzzy=True), as <<y, m, d>>:
\*   - with a month name, the token of more than two digits is the year and
\*     the other number the day;
\*   - all numeric, year first ("99-01-01" branch): dayfirst swaps month and
\*     day when the last number is <= 12;
\*   - all numeric, year last: day first when the first number is > 12 or the
\*     second <= 12, month first otherwise.
resolve_ymd(date_str) ==
    LET mon == MonthOf(Lower(date_str))
        n1 == ToInt(NthRun(date_str, 1))
        n2 == ToInt(NthRun(date_str, 2))
    IN IF mon # 0
       THEN (IF Len(NthRun(date_str, 1)) > 2 THEN <<n1, mon, n2>> ELSE <<n2, mon, n1>>)
       ELSE LET n3 == ToInt(NthRun(date_str, 3))
            IN IF n1 > 31 \/ Len(NthRun(date_str, 1)) > 2
               THEN (IF n3 <= 12 THEN <<n1, n3, n2>> ELSE <<n1, n2, n3>>)
               ELSE IF n1 > 12 \/ n2 <= 12 THEN <<n3, n2, n1>>
               ELSE <<n3, n1, n2>>

\* _parse_to_iso(date_str): None when dateutil raises or the year is not 2000..2099
parse_to_iso(date_str) ==
    LET ymd == resolve_ymd(date_str)
    IN IF ValidDate(ymd[1], ymd[2], ymd[3]) /\ ymd[1] >= 2000 /\ ymd[1] <= 2099
       THEN IsoFormat(ymd[1], ymd[2], ymd[3])
       ELSE None

\* the result of the k-th round of the loop of extract_date over _PATTERNS
PatResult(k, t) ==
    LET m == PatSearch(PATTERNS[k], t)
    IN IF m = None THEN None ELSE parse_to_iso(m)

\* extract_date(text): the ISO date of the first pattern whose match parses
extract_date(text) ==
    LET t == clean(text)
        good == { k \in 1..Len(PATTERNS) : PatResult(k, t) # None }
    IN IF good = {} THEN None ELSE PatResult(Min(good), t)

\* the spellings the group ([ap]\.?m\.?) can take (on lower-cased text)
AmPmForms == { "am", "pm", "a.m", "p.m", "am.", "pm.", "a.m.", "p.m." }

\* the spellings of ([ap]\.?m\.?)\b that match low at position p
AmPmAt(low, p) == { x \in AmPmForms : MatchAt(x, low, p) /\ Boundary(low, p + Len(x) - 1) }

\* _TIME_PATS, in order: H:MM:SS, H:MM (am/pm optional) and H am/pm
TIME_PATS == << "hms", "hm", "h" >>

\* the lengths the first group of a time pattern can take at position i
TimeHeadLens(kind, s, i) ==
    { n + (CASE kind = "hms" -> 6 [] kind = "hm" -> 3 [] kind = "h" -> 0) : n \in
        { d \in {1, 2} :
            /\ Boundary(s, i - 1)
            /\ AllDigits(s, i, i + d - 1)
            /\ kind # "h" => At(s, i + d) = ":" /\ AllDigits(s, i + d + 1, i + d + 2)
            /\ kind = "hms" => At(s, i + d + 3) = ":" /\ AllDigits(s, i + d + 4, i + d + 5) } }

\* the groups <<digits, meridiem>> of a time pattern matching at position i
\* (meridiem "a", "p", or "" when the optional group did not take part)
TimeGroupsAt(kind, s, low, i) ==
    { <<SubSeq(s, i, i + L - 1),
        IF AmPmAt(low, SkipWs(s, i + L)) # {} THEN Ch(low, SkipWs(s, i + L)) ELSE "">> :
      L \in { x \in TimeHeadLens(kind, s, i) :
                \/ AmPmAt(low, SkipWs(s, i + x)) # {}
                \/ kind # "h" /\ ~IsWord(At(s, i + x)) } }

\* a datetime.time, written as its isoformat "HH:MM:SS"
TimeOf(hour, minute, second) == Pad2(hour) \o ":" \o Pad2(minute) \o ":" \o Pad2(second)

HourOf(t) == ToInt(SubSeq(t, 1, 2))

MinuteOf(t) == ToInt(SubSeq(t, 4, 5))

SecondOf(t) == ToInt(SubSeq(t, 7, 8))

\* dateutil's _adjust_ampm
adjust_ampm(hour, mer) ==
    IF hour < 12 /\ mer = "p" THEN hour + 12
    ELSE IF hour = 12 /\ mer = "a" THEN 0
    ELSE hour

\* parser.parse(candidate).time() for the groups of a time pattern; None when
\* dateutil raises (a 12-hour clock hour above 12, or a field out of range)
parse_time(kind, g) ==
    LET hh == ToInt(NthRun(g[1], 1))
        mm == IF kind = "h" THEN 0 ELSE ToInt(NthRun(g[1], 2))
        ss == IF kind = "hms" THEN ToInt(NthRun(g[1], 3)) ELSE 0
        hour == IF g[2] = "" THEN hh ELSE adjust_ampm(hh, g[2])
    IN IF (kind # "h" /\ g[2] # "" /\ hh > 12) \/ hour > 23 \/ mm > 59 \/ ss > 59
       THEN None
       ELSE TimeOf(hour, mm, ss)

\* extract_time(text): the first pattern that matches decides; a candidate
\* that does not parse yields None without trying the later patterns
extract_time(text) ==
    LET t == clean(text)
        low == Lower(t)
        hit(k) == { i \in 1..Len(t) : TimeGroupsAt(TIME_PATS[k], t, low, i) # {} }
        good == { k \in 1..Len(TIME_PATS) : hit(k) # {} }
    IN IF good = {} THEN None
       ELSE LET k == Min(good)
                g == CHOOSE x \in TimeGroupsAt(TIME_PATS[k], t, low, Min(hit(k))) : TRUE
            IN parse_time(TIME_PATS[k], g)

(***************************************************************************)
(* Datetimes are written as strftime("%Y-%m-%d %H:%M:%S") strings.         *)
(***************************************************************************)
\* datetime.strptime(f"{date_str} {time_obj.strftime('%H:%M:%S')}", DT_FMT_SEC),
\* also build_timestamp(date_str, time_obj)
build_timestamp(date_str, time_obj) == date_str \o " " \o time_obj

DatePart(dt) == SubSeq(dt, 1, 10)

TimePart(dt) == SubSeq(dt, 12, 19)

\* dt.strftime("%Y-%m-%d %H:%M")
fmt_min(dt) == SubSeq(dt, 1, 16)

\* dt.strftime("%H:%M")
fmt_hm(dt) == SubSeq(dt, 12, 16)

\* datetime.strptime(s, DT_FMT_MIN) of a "%Y-%m-%d %H:%M" string
from_min(s) == s \o ":00"

YearOf(d) == ToInt(SubSeq(d, 1, 4))

MonthOfDate(d) == ToInt(SubSeq(d, 6, 7))

DayOf(d) == ToInt(SubSeq(d, 9, 10))

\* date - timedelta(days=1)
PrevDate(d) ==
    IF DayOf(d) > 1 THEN IsoFormat(YearOf(d), MonthOfDate(d), DayOf(d) - 1)
    ELSE IF MonthOfDate(d) > 1
         THEN IsoFormat(YearOf(d), MonthOfDate(d) - 1, DaysIn(YearOf(d), MonthOfDate(d) - 1))
         ELSE IsoFormat(YearOf(d) - 1, 12, 31)

\* date + timedelta(days=1)
NextDate(d) ==
    IF DayOf(d) < DaysIn(YearOf(d), MonthOfDate(d))
    THEN IsoFormat(YearOf(d), MonthOfDate(d), DayOf(d) + 1)
    ELSE IF MonthOfDate(d) < 12 THEN IsoFormat(YearOf(d), MonthOfDate(d) + 1, 1)
         ELSE IsoFormat(YearOf(d) + 1, 1, 1)

MinuteOfDay(t) == HourOf(t) * 60 + MinuteOf(t)

\* dt + timedelta(minutes=k), for -1440 < k < 1440
AddMinutes(dt, k) ==
    LET tot == MinuteOfDay(TimePart(dt)) + k
        day == IF tot < 0 THEN PrevDate(DatePart(dt))
               ELSE IF tot >= 1440 THEN NextDate(DatePart(dt))
               ELSE DatePart(dt)
        m == (tot + 1440) % 1440
    IN build_timestamp(day, TimeOf(m \div 60, m % 60, SecondOf(TimePart(dt))))

\* (total // minutes) * minutes, written back with second=0
\* the nearest multiple instead of the previous one
FloorTo_nearest(t, minutes) ==
    LET snapped == (((MinuteOfDay(t) + minutes \div 2) \div minutes) * minutes) % 1440
    IN TimeOf(snapped \div 60, snapped % 60, 0)

FloorTo(t, minutes) ==
    LET snapped == (MinuteOfDay(t) \div minutes) * minutes
    IN TimeOf(snapped \div 60, snapped % 60, 0)

(***************************************************************************)
(* utils.py: the response envelope.                                        *)
(***************************************************************************)
\* an empty dict
EmptyDict == << >>

\* ok(intent, data, meta)
ok(intent, data, meta) ==
    [ok |-> TRUE, intent |-> intent, data |-> data, meta |-> meta]

\* err(code, message, intent=..., details=..., meta=None)
err(code, message, intent, details) ==
    [ok |-> FALSE, intent |-> intent,
     error |-> [code |-> code, message |-> message, details |-> details],
     meta |-> EmptyDict]

(***************************************************************************)
(* response_router.py                                                      *)
(***************************************************************************)
IEX_WINDOW_MINUTES == 15
DEMAND_WINDOW_MINUTES == 15
MOD_WINDOW_MINUTES == 15
BANKING_WINDOW_MINUTES == 15

\* the alternatives of NOW_PAT
NOW_WORDS == << "now", "right now", "currently", "as of now", "as of today", "today" >>

\* NOW_PAT.search(norm_text)
now_pat(norm_text) == \E j \in 1..Len(NOW_WORDS) : ContainsWord(NOW_WORDS[j], norm_text)

\* _snap_minutes_for_intent(intent): the window as a one-element set, {} for None
snap_minutes_for_intent(intent) ==
    CASE intent = "iex" -> {IEX_WINDOW_MINUTES}
      [] intent = "demand" -> {DEMAND_WINDOW_MINUTES}
      [] intent = "mod" -> {MOD_WINDOW_MINUTES}
      [] intent = "banking" -> {BANKING_WINDOW_MINUTES}
      [] OTHER -> {}

\* _snap_time(time_obj, minutes)
snap_time(time_obj, minutes) ==
    IF time_obj = None \/ minutes = {} THEN time_obj
    ELSE IF (CHOOSE m \in minutes : TRUE) <= 1 THEN time_obj
    ELSE FloorTo(time_obj, CHOOSE m \in minutes : TRUE)

\* a faulty now_time: the default for a missing time is never computed
now_time_unset(clk) == None

\* now.replace(second=0, microsecond=0).time()
now_time(clk) == TimeOf(HourOf(TimePart(clk)), MinuteOf(TimePart(clk)), 0)

\* the mark of a raised exception
Raise == "<raise>"

\* _maybe_fill_now(norm_text, date_str, time_obj): hit is
\* NOW_PAT.search(norm_text), clk the clock reading; raised when _now_tz()
\* raises (the configured time zone cannot be loaded)

maybe_fill_now(hit, date_str, time_obj, clk, tz_ok) ==
    IF hit
    THEN IF ~tz_ok THEN [ raised |-> TRUE, date_str |-> date_str, time_obj |-> time_obj ]
         ELSE [ raised |-> FALSE,
                date_str |-> IF date_str = None THEN DatePart(clk) ELSE date_str,
                time_obj |-> IF time_obj = None THEN now_time(clk) ELSE time_obj ]
    ELSE [ raised |-> FALSE, date_str |-> date_str, time_obj |-> time_obj ]

plant_markers == <<
    "plf", "paf", "variable cost", "aux consumption", "max power", "min power",
    "rated capacity", "technical minimum", "plant type", "plant load factor",
    "plant availability factor", "availability factor" >>

plant_kw == {
    "plf", "paf", "variable cost", "aux consumption", "max power", "min power",
    "rated capacity", "technical minimum", "type", "maximum power", "minimum power",
    "auxiliary consumption", "plant load factor", "plant availability factor",
    "aux usage", "auxiliary usage", "var cost" }

banking_kw == {
    "banking", "banking unit", "banked", "banked unit", "banking contribution",
    "energy banked", "adjusted units", "adjustment charges", "banking cost",
    "banked units", "banking units" }

\* a faulty procurement_kw: the bare word energy is left out
procurement_kw_no_energy == {
    "generated energy", "procurement price", "generation energy",
    "cost generated", "generated cost", "generation cost",
    "power purchase cost", "ppc", "purchase cost", "last price", "iex cost" }

procurement_kw == {
    "generated energy", "procurement price", "energy", "generation energy",
    "cost generated", "generated cost", "generation cost",
    "power purchase cost", "ppc", "purchase cost", "last price", "iex cost" }

proc_phrases == <<
    "generated energy", "energy generated", "energy generation",
    "procurement price", "last price",
    "generated cost", "generation cost", "cost generated", "cost generation" >>

\* any(k in norm for k in kws), kws a set
AnyOfIn(kws, norm) == \E k \in kws : Contains(k, norm)

\* a faulty banking test: banking texts are left to the later steps
banking_hit_unsplit(in_norm, matched_keywords) == FALSE

\* the test of line 116: in_norm is any(k in norm for k in banking_kw)
banking_hit(in_norm, matched_keywords) == in_norm \/ matched_keywords \cap banking_kw # {}

MISSING_MSG == "Include BOTH a date (YYYY-MM-DD or '30 September 2027') and time (HH:MM)."

(***************************************************************************)
(* sbert_intent.py and intent_handler.py: the two-stage classifier.        *)
(* Scores are in hundredths.                                               *)
(***************************************************************************)
THRESHOLD == 65

\* the keys of _INTENT_PHRASES; ENABLED_INTENTS (configuration) selects which
\* of them have reference embeddings
INTENT_PHRASES_KEYS ==
    { "procurement", "banking", "plant_info", "mod", "iex", "demand", "cost per block" }

price_words == <<
    "price", "rate", "value", "cost", "ppc", "mcp", "dispatch", "despatch",
    "exchange", "clearing" >>

plant_cues == <<
    "ntpc", "gsecl", "npci", "npcil", "hydro", "wind", "bagasse", "solar", "plant",
    "vindhyachal", "ukai", "kadana" >>

\* the context-aware threshold of predict_intent_sbert (lines 65-74) when
\* SBERT_INTENT_THRESHOLD is configured as threshold
effective_base(threshold, text_norm) ==
    LET b1 == IF AnyIn(<<" at ", ":">>, text_norm) /\ AnyIn(price_words, text_norm)
              THEN Max({55, threshold - 5}) ELSE threshold
    IN IF AnyIn(plant_cues, text_norm) THEN Max({55, b1 - 3}) ELSE b1

\* the same under the configuration of the model
sbert_base(text_norm) == effective_base(THRESHOLD, text_norm)

\* predict_intent_sbert(raw_text)[0], given the best intent and score the
\* embedding comparison produced for the normalized text
predict_intent_sbert(text_norm, best_intent, best_score) ==
    IF best_score >= sbert_base(text_norm) THEN best_intent ELSE None

\* the rule table of get_intent, in dict order
intents == <<
    << "plant_info", <<
        "plant", "plant details", "generation plant", "power plant", "generator",
        "plf", "paf", "variable cost", "aux consumption", "max power", "min power",
        "rated capacity", "type", "technical minimum", "auxiliary consumption",
        "aux usage", "auxiliary usage", "var cost", "plant load factor",
        "plant availability factor" >> >>,
    << "procurement", <<
        "procurement", "purchase", "power purchase cost", "ppc",
        "procurement price", "last price", "iex cost",
        "generated energy", "energy generation", "energy generated",
        "banking", "banking unit", "banked", "banked unit", "banking contribution",
        "energy banked",
        "generated cost", "generation cost", "cost generated", "cost generation" >> >>,
    << "mod", <<
        "mod", "moment of dispatch", "dispatch price", "mod price", "mod rate",
        "dispatch rate", "moment of dispatch price", "moment of dispatch rate" >> >>,
    << "iex", <<
        "iex", "exchange rate", "exchange price", "market rate", "market price",
        "indian energy exchange" >> >>,
    << "cost per block", <<
        "cost per block", "block cost", "block price", "rate per block", "cost rate",
        "block rate" >> >>,
    << "demand", <<
        "demand", "consumption", "average demand", "avg demand", "load",
        "forecast", "prediction", "predicted", "expected" >> >> >>

\* a faulty Stage B: the last intent of the table with a keyword in low
stage_b_last(low) ==
    LET hits == { j \in 1..Len(intents) : AnyIn(intents[j][2], low) }
    IN IF hits = {} THEN None ELSE intents[Max(hits)][1]

\* Stage B of get_intent: the first intent of the table with a keyword in low
stage_b(low) ==
    LET hits == { j \in 1..Len(intents) : AnyIn(intents[j][2], low) }
    IN IF hits = {} THEN None ELSE intents[Min(hits)][1]

\* get_intent reaches its rule table (line 14): the semantic stage returned
\* without an intent; it neither raised nor returned one (lines 8-11)
stage_b_runs(stage_a) == stage_a # Raise /\ stage_a = None

\* a faulty get_intent: the rule table is consulted after the semantic stage
\* raised, too
get_intent_fallthrough(stage_a, rule) ==
    IF stage_a # Raise /\ stage_a # None THEN stage_a ELSE rule

\* get_intent(tokens, raw_text): stage_a is the outcome of the semantic stage
\* (Raise when predict_intent_sbert raises, else its first component) and
\* rule the Stage B result for raw_text.lower()
get_intent(stage_a, rule) ==
    IF stage_a = Raise THEN None
    ELSE IF stage_a # None THEN stage_a
    ELSE rule

(***************************************************************************)
(* plant_handler.py: the text side of handle_plant_info.                   *)
(***************************************************************************)
\* FIELD_MAP, in declaration order: phrase, api key, label, unit type
FIELD_MAP == <<
    << "plf", "PLF", "PLF", "percent" >>,
    << "plant load factor", "PLF", "PLF", "percent" >>,
    << "paf", "PAF", "PAF", "percent" >>,
    << "plant availability factor", "PAF", "PAF", "percent" >>,
    << "variable cost", "Variable_Cost", "variable cost", "currency_per_unit" >>,
    << "var cost", "Variable_Cost", "variable cost", "currency_per_unit" >>,
    << "aux consumption", "Aux_Consumption", "auxiliary consumption", "percent" >>,
    << "auxiliary consumption", "Aux_Consumption", "auxiliary consumption", "percent" >>,
    << "aux usage", "Aux_Consumption", "auxiliary consumption", "percent" >>,
    << "auxiliary usage", "Aux_Consumption", "auxiliary consumption", "percent" >>,
    << "max power", "Max_Power", "max power", "mw" >>,
    << "min power", "Min_Power", "min power", "mw" >>,
    << "rated capacity", "Rated_Capacity", "rated capacity", "mw" >>,
    << "technical minimum", "Technical_Minimum", "technical minimum", "percent" >>,
    << "type", "Type", "type", "raw" >> >>

\* _pick_requested_field(message_norm): the index in FIELD_MAP of the first
\* phrase contained in the text, 0 for (None, None, None)
pick_requested_field(message_norm) ==
    LET hits == { j \in 1..Len(FIELD_MAP) : Contains(FIELD_MAP[j][1], message_norm) }
    IN IF hits = {} THEN 0 ELSE Min(hits)

\* lines 135-137 of handle_plant_info: the request is for every plant
wants_all_plants(message_norm) ==
    \/ \E w \in {"list", "all", "overview", "summary", "show all"} : ContainsWord(w, message_norm)
    \/ /\ Contains("plant", message_norm)
       /\ ~Contains("of", message_norm)
       /\ ~Contains("for", message_norm)
       /\ ~Contains("by", message_norm)

\* [a-z0-9\s\-&/] under re.IGNORECASE
IsNameCh(c) == c \in Lowers \cup Uppers \cup Digits \cup {"-", "&", "/"} \/ IsSpace(c)

\* the lookahead (?=\s+(?:on|at)\s+|[\?\.!]|$) holds at position p of s
NameStop(s, p) ==
    \/ p = Len(s) + 1
    \/ At(s, p) \in {"?", ".", "!"}
    \/ /\ IsSpace(At(s, p))
       /\ LowerCh(At(s, SkipWs(s, p))) \o LowerCh(At(s, SkipWs(s, p) + 1)) \in {"on", "at"}
       /\ IsSpace(At(s, SkipWs(s, p) + 2))

\* the length of the alternative of (?:by|for|of) that matches at position i
\* of s, 0 when none does
NameLead(s, i) ==
    IF LowerCh(At(s, i)) \o LowerCh(At(s, i + 1)) \in {"by", "of"} THEN 2
    ELSE IF LowerCh(At(s, i)) \o LowerCh(At(s, i + 1)) \o LowerCh(At(s, i + 2)) = "for" THEN 3
    ELSE 0

\* the <<first, last>> positions group 1 can take when the pattern of
\* _extract_plant_name matches at position i of s
NameGroups(s, i) ==
    IF NameLead(s, i) = 0 \/ ~IsSpace(At(s, i + NameLead(s, i))) THEN {}
    ELSE LET j == i + NameLead(s, i)
         IN { ge \in ((j + 1)..SkipWs(s, j)) \X ((j + 1)..Len(s)) :
                /\ ge[1] <= ge[2]
                /\ \A k \in ge[1]..ge[2] : IsNameCh(Ch(s, k))
                /\ NameStop(s, ge[2] + 1) }

\* re.search(r"(?:by|for|of)\s+([a-z0-9\s\-&/]+?)(?=\s+(?:on|at)\s+|[\?\.!]|$)",
\* s, re.I): group 1 of the leftmost match, None without a match.  \s+ is
\* greedy (the group starts as late as it can) and the group is lazy (it
\* ends as early as it can).
plant_name_search(s) ==
    LET starts == { i \in 1..Len(s) : NameGroups(s, i) # {} }
    IN IF starts = {} THEN None
       ELSE LET hits == NameGroups(s, Min(starts))
                g == Max({ ge[1] : ge \in hits })
                e == Min({ ge[2] : ge \in { h \in hits : h[1] = g } })
            IN SubSeq(s, g, e)

\* _extract_plant_name(message_norm)
extract_plant_name(message_norm) ==
    IF plant_name_search(message_norm) = None THEN None
    ELSE Strip(plant_name_search(message_norm))

(***************************************************************************)
(* utils.py: fuzzy_match and the SequenceMatcher of difflib behind it.     *)
(***************************************************************************)
\* the common blocks <<i, j, k>>, a[i..i+k-1] = b[j..j+k-1], inside
\* a[alo..ahi] and b[blo..bhi]
Blocks(a, b, alo, ahi, blo, bhi) ==
    { m \in (alo..ahi) \X (blo..bhi) \X (1..(ahi - alo + 1)) :
        /\ m[1] + m[3] - 1 <= ahi /\ m[2] + m[3] - 1 <= bhi
        /\ SubSeq(a, m[1], m[1] + m[3] - 1) = SubSeq(b, m[2], m[2] + m[3] - 1) }

\* SequenceMatcher.find_longest_match: the longest block, of those the one
\* that starts earliest in a, of those the one that starts earliest in b
LongestMatch(a, b, alo, ahi, blo, bhi) ==
    LET bl == Blocks(a, b, alo, ahi, blo, bhi)
        k == Max({ m[3] : m \in bl })
        i == Min({ m[1] : m \in { x \in bl : x[3] = k } })
        j == Min({ m[2] : m \in { x \in bl : x[3] = k /\ x[1] = i } })
    IN << i, j, k >>

\* the number of matched characters of SequenceMatcher.get_matching_blocks:
\* the longest match, then the same to its left and to its right
RECURSIVE MatchCount(_, _, _, _, _, _)
MatchCount(a, b, alo, ahi, blo, bhi) ==
    IF alo > ahi \/ blo > bhi THEN 0
    ELSE IF Blocks(a, b, alo, ahi, blo, bhi) = {} THEN 0
    ELSE LET m == LongestMatch(a, b, alo, ahi, blo, bhi)
         IN m[3] + MatchCount(a, b, alo, m[1] - 1, blo, m[2] - 1)
                 + MatchCount(a, b, m[1] + m[3], ahi, m[2] + m[3], bhi)

\* SequenceMatcher(None, a, b).ratio() >= 0.75, ratio = 2 * matches / (len(a) + len(b))
ratio_ok(a, b) == 8 * MatchCount(a, b, 1, Len(a), 1, Len(b)) >= 3 * (Len(a) + Len(b))

\* fuzzy_match(a, b), threshold 0.75
fuzzy_match(a, b) ==
    LET a1 == normalize(a)
        b1 == normalize(b)
    IN IF a1 = "" \/ b1 = "" THEN FALSE
       ELSE IF a1 = b1 \/ Contains(a1, b1) \/ Contains(b1, a1) THEN TRUE
       ELSE ratio_ok(a1, b1)

(***************************************************************************)
(* The requests the model sends, and what the text pipeline makes of them. *)
(***************************************************************************)
Bodies == {
    "Hi", "which plf of ukai", "plf of ukai", "type of ukai", "energy banked",
    "generated energy", "iex price", "cost per block", "xyz", "purchase",
    "cost, generation", "plant details", "paf ukai", "generated energy of ukai",
    "cost generation", "indian energy exchange price" }

Suffixes == {
    "", " on 2027-09-30", " at 00:05", " at 00:05 on 2027-09-30", " today", " now" }

\* the values of the msg query parameter
RawInputs == { b \o x : b \in Bodies, x \in Suffixes } \cup { "", "  ", " Hi " }

\* the readings of the server clock
Clock == { "2027-10-01 00:12:30", "2027-10-01 13:50:20" }

\* what get_response computes from the text alone (lines 67-85 of
\* response_router.py and the text tests of its later steps)
Analyze(user_input) ==
    LET norm == normalize(user_input)
    IN [ static |-> match_static_qa(user_input),
         matched_keywords |-> preprocess(user_input, TRUE),
         date_str |-> extract_date(user_input),
         time_obj |-> extract_time(user_input),
         norm |-> norm,
         now |-> now_pat(norm),
         marker |-> AnyIn(plant_markers, norm),
         banking |-> AnyOfIn(banking_kw, norm),
         procurement |-> AnyOfIn(procurement_kw, norm),
         phrases |-> AnyIn(proc_phrases, norm),
         base |-> sbert_base(norm),
         rule |-> stage_b(Lower(user_input)) ]

\* the texts get_response is called with
UserInputs == { Strip(r) : r \in RawInputs } \ {""}

\* Analyze, tabulated once for the requests of the model
Pipeline == [ u \in UserInputs |-> Analyze(u) ]

\* the values a record cannot answer with: None, "", "null", "NaN"
Unusable == { None, "", "null", "NaN" }

\* the plant lists (must_run + other) the plant API can answer with
PlantCatalogs == <<
    << [ name |-> "Koradi", PLF |-> "71.5", Type |-> "thermal" ],
       [ name |-> "Ukai", PLF |-> "0.8", Type |-> None ] >>,
    << [ name |-> "Kadana", PAF |-> "0.9" ] >>,
    << [ name |-> "Ukai Hydro", PLF |-> "55" ],
       [ name |-> "Ukai", PLF |-> "0.8" ] >> >>

\* plant.get("name", "Unknown Plant")
plant_name_of(plant) == IF "name" \in DOMAIN plant THEN plant.name ELSE "Unknown Plant"

\* lines 157-163 of handle_plant_info: the index in all_plants of the first
\* plant whose name matches plant_query, 0 when best stays None
\* the closest name wins: an equal name before any other matching one
plant_best_exact_first(all_plants, plant_query) ==
    LET plant_query_norm == normalize(ReplaceLit(plant_query, "/", " "))
        hits == { k \in 1..Len(all_plants) :
                    fuzzy_match(normalize(plant_name_of(all_plants[k])), plant_query_norm) }
        exact == { k \in hits : normalize(plant_name_of(all_plants[k])) = plant_query_norm }
    IN IF hits = {} THEN 0 ELSE IF exact # {} THEN Min(exact) ELSE Min(hits)

plant_best(all_plants, plant_query) ==
    LET plant_query_norm == normalize(ReplaceLit(plant_query, "/", " "))
        hits == { k \in 1..Len(all_plants) :
                    fuzzy_match(normalize(plant_name_of(all_plants[k])), plant_query_norm) }
    IN IF hits = {} THEN 0 ELSE Min(hits)

\* what handle_plant_info computes from original_message alone (lines 125-127,
\* 135-137 and 151) and, for each plant list, the search of lines 157-163
plant_text(original_message) ==
    LET message_norm == normalize(original_message)
        plant_query == extract_plant_name(message_norm)
    IN [ field |-> pick_requested_field(message_norm),
         all_plants |-> wants_all_plants(message_norm),
         plant_query |-> plant_query,
         best |-> [ c \in 1..Len(PlantCatalogs) |->
                      IF plant_query \in {None, ""} THEN 0
                      ELSE plant_best(PlantCatalogs[c], plant_query) ] ]

\* plant_text, tabulated once for the requests of the model
PlantText == [ u \in UserInputs |-> plant_text(u) ]

(***************************************************************************)
(* procurement_handler.py: the text side of handle_procurement_info.       *)
(***************************************************************************)
\* field_map, in declaration order
field_map == <<
    << "banking", "Banking_Unit" >>, << "banking unit", "Banking_Unit" >>,
    << "banked", "Banking_Unit" >>, << "banked unit", "Banking_Unit" >>,
    << "banking contribution", "Banking_Unit" >>, << "demand banked", "Banking_Unit" >>,
    << "energy banked", "Banking_Unit" >>,
    << "generated energy", "generated_energy" >>, << "energy generated", "generated_energy" >>,
    << "energy generation", "generated_energy" >>, << "energy", "generated_energy" >>,
    << "generated cost", "Generated_Cost" >>, << "generation cost", "Generated_Cost" >>,
    << "cost generated", "Generated_Cost" >>, << "cost generation", "Generated_Cost" >>,
    << "procurement price", "Last_Price" >>, << "last price", "Last_Price" >>,
    << "power purchase cost", "Last_Price" >>, << "ppc", "Last_Price" >>,
    << "purchase cost", "Last_Price" >>, << "iex cost", "Last_Price" >> >>

\* tuple(sorted(field_map.keys(), key=len, reverse=True)), with the values
field_keys == SortedLongestFirst(field_map)

\* what process.extractOne(msg_norm, field_keys, scorer=fuzz.partial_ratio)
\* can make _pick_field return when no key is contained in the text: None
\* (best score under 85) or the field of the best key
FuzzyPicks == { None, "Last_Price" }

\* _pick_field(msg_norm): the field of the first key of field_keys contained
\* in the text, else the outcome fz of the approximate search
pick_field(msg_norm, fz) ==
    LET hits == { j \in 1..Len(field_keys) : Contains(field_keys[j][1], msg_norm) }
    IN IF hits = {} THEN fz ELSE field_keys[Min(hits)][2]

\* the payloads the procurement API can answer with: the keys of the dict
\* other than the plant lists (top), and _extract_all_plants(data) (plants)
ProcurementPayloads == <<
    [ top |-> EmptyDict,
      plants |-> << [ plant_name |-> "Kadana", generated_energy |-> "40", Variable_Cost |-> "2" ],
                    [ plant_name |-> "Ukai", generated_energy |-> None ] >> ],
    [ top |-> [ generated_energy |-> "120" ], plants |-> << >> ],
    [ top |-> EmptyDict, plants |-> << [ name |-> "Kadana", Last_Price |-> "3" ] >> ],
    [ top |-> EmptyDict, plants |-> << [ name |-> "Ukai", Last_Price |-> "3" ] >> ],
    [ top |-> EmptyDict,
      plants |-> << [ plant_name |-> "Ukai Hydro", generated_energy |-> "7" ],
                    [ plant_name |-> "Ukai", generated_energy |-> "40" ] >> ] >>

\* plant.get("plant_name") or plant.get("name") or ""
pname_of(plant) ==
    IF "plant_name" \in DOMAIN plant /\ plant.plant_name \notin {None, ""} THEN plant.plant_name
    ELSE IF "name" \in DOMAIN plant /\ plant.name \notin {None, ""} THEN plant.name
    ELSE ""

\* lines 148-151 of handle_procurement_info: the index in all_plants of the
\* first plant whose name matches group 1 of the pattern, 0 for none
procurement_best(all_plants, group) ==
    LET plant_query == normalize(ReplaceLit(group, "/", " "))
        hits == { k \in 1..Len(all_plants) :
                    fuzzy_match(normalize(pname_of(all_plants[k])), plant_query) }
    IN IF hits = {} THEN 0 ELSE Min(hits)

\* what handle_procurement_info computes from original_message alone (lines
\* 99 and 146) and, for each payload, the search of lines 148-151
procurement_text(original_message) ==
    LET m == plant_name_search(original_message)
    IN [ message_norm |-> normalize(original_message),
         m |-> m,
         best |-> [ p \in 1..Len(ProcurementPayloads) |->
                      IF m = None THEN 0
                      ELSE procurement_best(ProcurementPayloads[p].plants, m) ] ]

\* procurement_text, tabulated once for the requests of the model
ProcurementText == [ u \in UserInputs |-> procurement_text(u) ]

(***************************************************************************)
(* State.                                                                  *)
(*   cfg      the process configuration: tz_ok (ZoneInfo(TZ) loads),       *)
(*            api_base (POWCAST_API_BASE is set), nlp_ok (word_tokenize    *)
(*            works)                                                       *)
(*   pc       where the request is: "idle", "get_response", the handler    *)
(*            get_response called, "banking_retry", or "done"              *)
(*   msg      the msg query parameter of the request                       *)
(*   rt       the exit get_response took (NoRoute before it ran)           *)
(*   resp     the JSON body handle_chat answers with, status its HTTP code *)
(*   cache    the key/value cache behind cache_get / cache_set             *)
(*   bank     the snapped timestamp handle_banking_info works on           *)
(*   queries  what this request asked the upstreams for: the windows of    *)
(*            handle_banking_info, the paths of generate_response          *)
(*   fetches  how each call of _fetch_rows_for by this request ended: the  *)
(*            window asked for, whether it raised, the rows it returned    *)
(*   exc      the places where this request saw an unexpected exception    *)
(*   hl       the locals of handle_plant_info / handle_procurement_info at *)
(*            their return                                                 *)
(***************************************************************************)
VARIABLES cfg, pc, msg, rt, resp, status, cache, bank, queries, fetches, exc, hl, call, thr

vars == << cfg, pc, msg, rt, resp, status, cache, bank, queries, fetches, exc, hl, call, thr >>

\* no function has been called on its own
NoCall == [ fn |-> None ]

\* the configurations of the model: at most one setting is broken
Configs ==
    { c \in [ tz_ok : BOOLEAN, api_base : BOOLEAN, nlp_ok : BOOLEAN ] :
        Cardinality({ k \in {"tz_ok", "api_base", "nlp_ok"} : ~c[k] }) <= 1 }

\* one exit of get_response: the step that decided, the intent it
\* established, what happens ("return" an envelope, "call" a handler, "raise"),
\* the date and time at that point, the outcome of the semantic stage
\* ("skipped" when get_intent was not called) and the clock reading used
Exit(step, intent, out, handler, d, t, sa, ck, resp_obj, ex) ==
    [ step |-> step, intent |-> intent, out |-> out, handler |-> handler,
      date_str |-> d, time_obj |-> t, stage_a |-> sa, clock |-> ck,
      resp |-> resp_obj, exc |-> ex ]

NoRoute == Exit("idle", None, "idle", None, None, None, "skipped", None, EmptyDict, {})

\* a faulty completeness test: "or" where the code has "and"
Complete_either(date_str, time_obj) == date_str # None \/ time_obj # None

\* not (date_str and time_obj) is false
Complete(date_str, time_obj) == date_str # None /\ time_obj # None

\* the scores the embedding comparison can produce, in hundredths
Scores == { 50, 56, 58, 61, 63, 66 }

\* lines 82-84 of predict_intent_sbert
accept(best_intent, best_score, base) == IF best_score >= base THEN best_intent ELSE None

\* what the semantic stage can yield for a text whose threshold is base
StageA(base) ==
    { Raise } \cup { accept(bi, sc, base) : bi \in INTENT_PHRASES_KEYS, sc \in Scores }

\* get_response(user_input), a the text analysis of user_input, c the
\* configuration, clk the clock, sa the outcome of the semantic stage
get_response_of(a, c, clk, sa) ==
    LET mk == IF c.nlp_ok THEN a.matched_keywords ELSE preprocess("", FALSE)
        f1 == maybe_fill_now(a.now, a.date_str, a.time_obj, clk, c.tz_ok)
        f == IF f1.raised THEN f1
             ELSE maybe_fill_now(a.now, f1.date_str, f1.time_obj, clk, c.tz_ok)
        d == f.date_str
        t == f.time_obj
        ck == IF a.now THEN clk ELSE None
        need == d = None \/ t = None
        ckd == IF need THEN clk ELSE ck
        dd == IF d = None THEN DatePart(clk) ELSE d
        td == IF t = None THEN now_time(clk) ELSE t
        ex0 == IF c.nlp_ok THEN {} ELSE {"preprocess"}
        exA == ex0 \cup (IF sa = Raise THEN {"predict_intent_sbert"} ELSE {})
        intent == get_intent(sa, a.rule)
        raised(step, s, ex) ==
            Exit(step, None, "raise", None, d, t, s, ck, EmptyDict, ex \cup {"_now_tz"})
        missing(step, it, s, ex) ==
            Exit(step, it, "return", None, d, t, s, ck,
                 err("MISSING_DATE_OR_TIME", MISSING_MSG, it, EmptyDict), ex)
        plant(step, s, ex) ==
            Exit(step, "plant_info", "call", "handle_plant_info", dd, td, s, ckd, EmptyDict, ex)
        banking(step, s, ex) ==
            IF need /\ ~c.tz_ok THEN raised(step, s, ex)
            ELSE Exit(step, "banking", "call", "handle_banking_info", dd,
                      snap_time(td, snap_minutes_for_intent("banking")), s, ckd, EmptyDict, ex)
        procurement(step, s, ex) ==
            IF ~Complete(d, t) THEN missing(step, "procurement", s, ex)
            ELSE Exit(step, "procurement", "call", "handle_procurement_info", d, t, s, ck,
                      EmptyDict, ex)
    IN
    IF a.static # None
    THEN Exit("static", "static", "return", None, None, None, "skipped", None,
              ok("static", [text |-> a.static], EmptyDict), {})
    ELSE IF f.raised THEN Exit("fill_now", None, "raise", None, a.date_str, a.time_obj,
                               "skipped", None, EmptyDict, ex0 \cup {"_now_tz"})
    ELSE IF a.marker THEN plant("plant_guard", "skipped", ex0)
    ELSE IF mk \cap plant_kw # {} THEN plant("plant_kw", "skipped", ex0)
    ELSE IF banking_hit(a.banking, mk) THEN banking("banking_kw", "skipped", ex0)
    ELSE IF mk \cap procurement_kw # {} \/ a.procurement
         THEN procurement("procurement_kw", "skipped", ex0)
    ELSE IF intent = "plant_info"
         THEN (IF need /\ ~c.tz_ok THEN raised("classifier", sa, exA)
               ELSE plant("classifier", sa, exA))
    ELSE IF intent = "procurement" THEN procurement("classifier", sa, exA)
    ELSE IF intent = "banking" THEN banking("classifier", sa, exA)
    ELSE IF intent \in {"iex", "mod", "demand", "cost per block"}
         THEN (IF ~Complete(d, t) THEN missing("classifier", intent, sa, exA)
               ELSE Exit("classifier", intent, "call", "generate_response", d,
                         snap_time(t, snap_minutes_for_intent(intent)), sa, ck, EmptyDict, exA))
    ELSE IF a.phrases THEN procurement("second_pass", sa, exA)
    ELSE IF intent = None
         THEN Exit("none", None, "return", None, d, t, sa, ck,
                   err("UNRECOGNIZED", "Sorry, I couldn't understand your request.", None,
                       EmptyDict), exA)
    ELSE Exit("none", intent, "return", None, d, t, sa, ck,
              err("UNSUPPORTED_INTENT", "Sorry, I don't have data for that request.", intent,
                  EmptyDict), exA)

(***************************************************************************)
(* app.py: the HTTP boundary.                                              *)
(***************************************************************************)
\* the most cache entries still alive when a request arrives
MaxCached == 1

\* a faulty chat_user_input: the strip() is left out
chat_user_input_unstripped(raw) == raw

\* request.args.get("msg", "").strip()
chat_user_input(raw) == Strip(raw)

\* the bodies handle_chat builds itself (lines 19 and 27)
boundary_error(code, message) == [ ok |-> FALSE, error |-> [ code |-> code, message |-> message ] ]

\* 200 if resp_obj.get("ok") else 400
status_of(resp_obj) == IF resp_obj.ok THEN 200 ELSE 400

\* handle_chat returns what get_response returned
Respond(resp_obj) ==
    /\ resp' = resp_obj
    /\ status' = status_of(resp_obj)
    /\ pc' = "done"

\* handle_chat up to the call of get_response: a new request arrives
handle_chat ==
    /\ pc = "idle"
    /\ Cardinality(DOMAIN cache) <= MaxCached
    /\ \E raw \in RawInputs :
         /\ msg' = raw
         /\ IF chat_user_input(raw) = ""
            THEN /\ resp' = boundary_error("EMPTY_REQUEST", "Empty request")
                 /\ status' = 400
                 /\ pc' = "done"
            ELSE /\ resp' = EmptyDict
                 /\ status' = 0
                 /\ pc' = "get_response"
    /\ UNCHANGED << cfg, cache, rt, bank, queries, fetches, exc, hl, call, thr >>

\* get_response runs up to its return or its call of a handler; an
\* exception it raises is caught by handle_chat (line 25)
get_response ==
    /\ pc = "get_response"
    /\ \E a \in { Pipeline[chat_user_input(msg)] } :
       \E clk \in Clock, sa \in StageA(a.base) :
         \E x \in { get_response_of(a, cfg, clk, sa) } :
            /\ rt' = x
            /\ exc' = x.exc
            /\ IF x.out = "call"
               THEN pc' = x.handler /\ UNCHANGED << resp, status >>
               ELSE IF x.out = "return" THEN Respond(x.resp)
               ELSE /\ resp' = boundary_error("INTERNAL", "Internal server error")
                    /\ status' = 500
                    /\ pc' = "done"
    /\ UNCHANGED << cfg, msg, cache, bank, queries, fetches, hl, call, thr >>

(***************************************************************************)
(* plant_handler.py, procurement_handler.py, response_handler.py.  What a  *)
(* collaborator answers is an input of the handler.                        *)
(***************************************************************************)
PlantReplies == {
    "network_error", "404_no_data_found", "404", "204", "500", "blank_body", "bad_json",
    "not_a_dict", "no_plants", "plants" }

\* the locals of a handler at its return: the parsed payload it worked on,
\* the field and the plant name it resolved from the text, and the record it
\* settled on ({} for none)
Locals(data, field, plant_query, best, all_plants) ==
    [ data |-> data, field |-> field, plant_query |-> plant_query, best |-> best,
      all_plants |-> all_plants ]

NoLocals == Locals({}, None, None, {}, << >>)

\* handle_plant_info(date_str, time_obj, original_message): a is the text
\* analysis of original_message, up the answer of the plant API and c the
\* plant list it carries when it has one
plant_reply(date_str, time_obj, a, up, c) ==
    LET ts == build_timestamp(date_str, time_obj)
        stamp == DatePart(ts) \o " " \o fmt_hm(ts)
        at == fmt_hm(ts) \o " on " \o DatePart(ts)
        all_plants == PlantCatalogs[c]
        api_key == IF a.field = 0 THEN None ELSE FIELD_MAP[a.field][2]
        no_data(metric, plant) ==
            err("NO_DATA", "No " \o metric \o " data found for " \o plant \o " at " \o at \o ".",
                "plant_info", [ metric |-> metric, plant |-> plant, timestamp |-> stamp ])
        fetch_fail ==
            err("FETCH_FAILED", "Failed to fetch plant details data.", "plant_info",
                [ metric |-> "plant details" ])
        label == FIELD_MAP[a.field][3]
        best == all_plants[a.best[c]]
        out(resp_obj, data, field, plant_query, rec) ==
            [ resp |-> resp_obj,
              hl |-> Locals(data, field, plant_query, rec,
                            IF data = {} THEN << >> ELSE all_plants) ]
    IN IF up \in {"network_error", "404", "500", "bad_json", "not_a_dict"}
       THEN out(fetch_fail, {}, None, None, {})
       ELSE IF up \in {"404_no_data_found", "204", "blank_body", "no_plants"}
       THEN out(no_data("plant details", "the requested plant"), {}, None, None, {})
       ELSE IF a.field = 0
       THEN out(err("MISSING_PARAM", "Please specify the parameter and the plant name.",
                    "plant_info", EmptyDict), {all_plants}, None, None, {})
       ELSE IF a.all_plants
       THEN out(ok("plant_info",
                   [ text |-> label \o " values at " \o at, metric |-> label,
                     timestamp |-> stamp, rows |-> "<rows>" ], EmptyDict),
                {all_plants}, api_key, None, {})
       ELSE IF a.plant_query \in {None, ""}
       THEN out(err("PLANT_NAME_MISSING", "Could not identify the plant name.", "plant_info",
                    EmptyDict), {all_plants}, api_key, a.plant_query, {})
       ELSE IF a.best[c] = 0
       THEN out(err("PLANT_NOT_FOUND", "No plant found matching '" \o a.plant_query \o "'.",
                    "plant_info", EmptyDict), {all_plants}, api_key, a.plant_query, {})
       ELSE IF api_key \notin DOMAIN best \/ best[api_key] \in Unusable
       THEN out(no_data(label, plant_name_of(best)), {all_plants}, api_key, a.plant_query, {best})
       ELSE out(ok("plant_info",
                   [ text |-> "The " \o label \o " for " \o plant_name_of(best) \o " at " \o at
                              \o " is <value>.",
                     metric |-> label, plant |-> plant_name_of(best), timestamp |-> stamp,
                     value |-> "<value>", unit |-> "" ], EmptyDict),
                {all_plants}, api_key, a.plant_query, {best})

handle_plant_info ==
    /\ pc = "handle_plant_info"
    /\ \E up \in PlantReplies, c \in 1..Len(PlantCatalogs) :
       \E x \in { plant_reply(rt.date_str, rt.time_obj, PlantText[chat_user_input(msg)], up, c) } :
         /\ Respond(x.resp)
         /\ hl' = x.hl
         /\ exc' = IF up = "not_a_dict" THEN exc \cup {"handle_plant_info"} ELSE exc
    /\ UNCHANGED << cfg, msg, rt, cache, bank, queries, fetches, call, thr >>

PROCUREMENT_WINDOW_MINUTES == 15

\* procurement_handler._snap_time(time_obj, minutes)
procurement_snap_time(time_obj, minutes) ==
    IF time_obj = None \/ minutes <= 1 THEN time_obj ELSE FloorTo(time_obj, minutes)

ProcurementReplies == {
    "network_error", "204", "404", "410", "500", "bad_json", "empty", "malformed", "payload" }

\* the keys of a plant once lines 89-96 have added Generated_Cost to it
RECURSIVE IntText(_)
\* str(n) of a natural number
IntText(n) == IF n < 10 THEN Ch(DigitStr, n + 1) ELSE IntText(n \div 10) \o Ch(DigitStr, (n % 10) + 1)

\* float(v or 0) of line 94, as a set: empty when float raises
FloatOf(plant, key) ==
    IF key \notin DOMAIN plant \/ plant[key] \in { None, "" } THEN { 0 }
    ELSE IF AllDigits(plant[key], 1, Len(plant[key])) THEN { ToInt(plant[key]) }
    ELSE {}

\* the value lines 91-96 store under "Generated_Cost"
generated_cost(plant) ==
    LET vc == FloatOf(plant, "Variable_Cost")
        gen == FloatOf(plant, "generated_energy")
    IN IF vc = {} \/ gen = {} THEN "0.0"
       ELSE IntText((CHOOSE x \in vc : TRUE) * (CHOOSE x \in gen : TRUE)) \o ".0"

\* the plant list after the loop of lines 89-96: every record has the key
\* "Generated_Cost", set or overwritten
with_generated_cost(all_plants) ==
    [ k \in 1..Len(all_plants) |->
        [ key \in DOMAIN all_plants[k] \cup { "Generated_Cost" } |->
            IF key = "Generated_Cost" THEN generated_cost(all_plants[k])
            ELSE all_plants[k][key] ] ]

keys_of(plant) == DOMAIN plant \cup {"Generated_Cost"}

\* handle_procurement_info(original_message, date_str, time_obj): a is the
\* text analysis of original_message, up the answer of the procurement API,
\* p the payload it carries when it has one and fz the outcome of the
\* approximate field search
procurement_reply(date_str, time_obj, a, up, p, fz) ==
    LET snapped == procurement_snap_time(time_obj, PROCUREMENT_WINDOW_MINUTES)
        start_timestamp == date_str \o " " \o snapped
        data == ProcurementPayloads[p]
        all_plants == data.plants
        requested_field == pick_field(a.message_norm, fz)
        plant == all_plants[a.best[p]]
        no_data ==
            err("NO_DATA",
                "No procurement data found for " \o SubSeq(snapped, 1, 5) \o " on " \o date_str \o ".",
                "procurement", [ timestamp |-> start_timestamp ])
        fetch_fail(why) ==
            err("FETCH_FAILED", "Failed to fetch procurement data.", "procurement",
                [ timestamp |-> start_timestamp, reason |-> why ])
        out(resp_obj, d, field, plant_query, rec) ==
            [ resp |-> resp_obj,
              hl |-> Locals(d, field, plant_query, rec,
                            IF d = {} THEN << >> ELSE with_generated_cost(all_plants)) ]
    IN CASE up = "network_error" -> out(fetch_fail("network error"), {}, None, None, {})
         [] up \in {"204", "404", "410"} -> out(no_data, {}, None, None, {})
         [] up = "500" -> out(fetch_fail("status"), {}, None, None, {})
         [] up = "bad_json" -> out(fetch_fail("invalid json"), {}, None, None, {})
         [] up = "empty" -> out(no_data, {}, None, None, {})
         [] up = "malformed" ->
                out(err("INTERNAL", "Error fetching procurement data.", "procurement", EmptyDict),
                    {}, None, None, {})
         [] OTHER ->
                IF requested_field = None
                THEN out(err("MISSING_PARAM",
                             "Please specify what you need along with date & time.",
                             "procurement", EmptyDict), {data}, None, None, {})
                ELSE IF requested_field \in DOMAIN data.top
                THEN out(ok("procurement",
                            [ text |-> requested_field \o " at " \o start_timestamp \o ": "
                                       \o data.top[requested_field],
                              timestamp |-> start_timestamp, field |-> requested_field,
                              value |-> data.top[requested_field] ], EmptyDict),
                         {data}, requested_field, None, {})
                ELSE IF a.m # None /\ all_plants # << >>
                THEN IF a.best[p] = 0
                     THEN out(err("PLANT_NOT_FOUND", "No plant found matching '" \o a.m \o "'.",
                                  "procurement", EmptyDict), {data}, requested_field, a.m, {})
                     ELSE IF requested_field \notin keys_of(plant)
                     THEN out(err("NO_DATA",
                                  requested_field \o " not available for " \o pname_of(plant)
                                      \o " at " \o start_timestamp \o ".",
                                  "procurement",
                                  [ plant |-> pname_of(plant), field |-> requested_field,
                                    timestamp |-> start_timestamp ]),
                              {data}, requested_field, a.m, {plant})
                     ELSE out(ok("procurement",
                                 [ text |-> requested_field \o " for " \o pname_of(plant) \o " at "
                                            \o start_timestamp,
                                   timestamp |-> start_timestamp, plant |-> pname_of(plant),
                                   field |-> requested_field,
                                   value |-> IF requested_field \in DOMAIN plant
                                             THEN plant[requested_field] ELSE "<cost>" ],
                                 EmptyDict),
                              {data}, requested_field, a.m, {plant})
                ELSE IF all_plants # << >>
                THEN out(ok("procurement",
                            [ text |-> requested_field \o " values at " \o start_timestamp,
                              timestamp |-> start_timestamp, field |-> requested_field,
                              rows |-> "<rows>" ], EmptyDict),
                         {data}, requested_field, a.m, {})
                ELSE out(no_data, {data}, requested_field, a.m, {})

handle_procurement_info ==
    /\ pc = "handle_procurement_info"
    /\ \E up \in ProcurementReplies, p \in 1..Len(ProcurementPayloads), fz \in FuzzyPicks :
       \E x \in { procurement_reply(rt.date_str, rt.time_obj,
                                    ProcurementText[chat_user_input(msg)], up, p, fz) } :
         /\ Respond(x.resp)
         /\ hl' = x.hl
         /\ exc' = IF up = "malformed" THEN exc \cup {"handle_procurement_info"} ELSE exc
    /\ UNCHANGED << cfg, msg, rt, cache, bank, queries, fetches, call, thr >>

\* what _safe_json makes of the answer of the data API
ApiReplies == { "fetch_fail", "no_data", "no_value", "value" }

\* generate_response(intent, date_str, time_obj): up is what the data API
\* answered; api_url raises when POWCAST_API_BASE is unset, inside the try of
\* the branch
generate_reply(intent, date_str, time_obj, api_base, up) ==
    LET ts == build_timestamp(date_str, time_obj)
        start_dt == IF intent = "demand"
                    THEN build_timestamp(NextDate(date_str), TimeOf(HourOf(time_obj), MinuteOf(time_obj), 0))
                    ELSE IF intent = "iex"
                    THEN build_timestamp(date_str, TimeOf(HourOf(time_obj), MinuteOf(time_obj), 0))
                    ELSE ts
        metric == CASE intent = "mod" -> "MOD price"
                    [] intent = "iex" -> "IEX market rate"
                    [] intent = "demand" -> "demand"
                    [] OTHER -> ""
        at == fmt_hm(start_dt) \o " on " \o DatePart(start_dt)
    IN IF intent \notin {"mod", "iex", "demand"}
       THEN err("UNSUPPORTED_INTENT", "Sorry, I don't have data for that request.", intent,
                EmptyDict)
       ELSE IF ~api_base \/ up = "fetch_fail"
       THEN err("FETCH_FAILED", "Failed to fetch " \o metric \o " data.", intent,
                [ metric |-> metric ])
       ELSE IF up \in {"no_data", "no_value"}
       THEN err("NO_DATA", "No " \o metric \o " data found for " \o at \o ".", intent,
                [ metric |-> metric, timestamp |-> start_dt ])
       ELSE ok(intent,
               [ text |-> "The " \o metric \o " at " \o at \o " is <value>.", metric |-> metric,
                 timestamp |-> start_dt, value |-> "<value>",
                 unit |-> IF intent = "demand" THEN "" ELSE "per unit" ],
               IF intent = "mod" THEN [ source |-> "procurement" ]
               ELSE IF intent = "iex" THEN [ source |-> "IEX" ] ELSE EmptyDict)

\* a request for every intent
api_path_always(intent) == { "/procurement" }

\* the path generate_response passes to api_get for an intent, as a set
\* (empty: the branch of the intent makes no request)
api_path(intent) ==
    CASE intent = "mod" -> { "/procurement" }
      [] intent = "iex" -> { "/iex/range" }
      [] intent = "demand" -> { "/demand/range" }
      [] OTHER -> {}

generate_response ==
    /\ pc = "generate_response"
    /\ \E up \in ApiReplies :
         Respond(generate_reply(rt.intent, rt.date_str, rt.time_obj, cfg.api_base, up))
    /\ queries' = IF cfg.api_base /\ api_path(rt.intent) # {}
                  THEN Append(queries, CHOOSE path \in api_path(rt.intent) : TRUE)
                  ELSE queries
    /\ UNCHANGED << cfg, msg, rt, cache, bank, fetches, exc, hl, call, thr >>

(***************************************************************************)
(* banking_handler.py                                                      *)
(***************************************************************************)
\* cache_get(key) is not None: the key is stored and has not expired
cache_has(kv, key) == key \in DOMAIN kv

\* cache_get(key) of a stored key
cache_get(kv, key) == kv[key]

\* cache_set(key, value, ttl_sec=...)
cache_set(kv, key, value) ==
    [ k \in DOMAIN kv \cup {key} |-> IF k = key THEN value ELSE kv[k] ]

\* the entry of key reaches its time to live
cache_drop(kv, key) == [ k \in DOMAIN kv \ {key} |-> kv[k] ]

\* the rows the banking API can report for a window
RowLists == { << [ adjusted_units |-> "4", banking_units |-> "9", banking_cost |-> "" ] >> }

\* what requests.get can come back with: an exception, or a status and a body
\* that is not JSON (text), a JSON object (rows: its "data" member, << >>
\* when absent), a JSON array (rows) or another JSON value
BankingReplies ==
    { [ exception |-> TRUE, status |-> 0, json |-> "no", text |-> "", rows |-> << >> ] }
    \cup { [ exception |-> FALSE, status |-> st, json |-> "no", text |-> "", rows |-> << >> ] :
             st \in {204, 404, 410, 500} }
    \cup { [ exception |-> FALSE, status |-> 200, json |-> "no", text |-> tx, rows |-> << >> ] :
             tx \in {"", " None ", "<html>"} }
    \cup { [ exception |-> FALSE, status |-> 200, json |-> js, text |-> "", rows |-> rs ] :
             js \in {"dict", "list"}, rs \in RowLists \cup { << >> } }
    \cup { [ exception |-> FALSE, status |-> 200, json |-> "other", text |-> "", rows |-> << >> ] }

\* only a blank body looks empty
looks_empty_blank_only(text) == Strip(text) = ""

\* _looks_empty(s)
looks_empty(text) == Lower(Strip(text)) \in {"", "[]", "{}", "null", "none"}

\* banking_handler._snap_time_to_minutes(t, minutes)
snap_time_to_minutes(t, minutes) ==
    IF minutes <= 1
    THEN build_timestamp(DatePart(t), TimeOf(HourOf(TimePart(t)), MinuteOf(TimePart(t)), 0))
    ELSE build_timestamp(DatePart(t), FloorTo(TimePart(t), minutes))

\* _fetch_rows_for(ts_minute) against the cache kv, when the upstream answers
\* up: whether it raised, the rows and start it returned, the cache it left
\* and whether it sent the request
\* one key for every window
banking_ck_shared(start) == "banking:"

\* ck = f"banking:{start}"
banking_ck(start) == "banking:" \o start

fetch_rows_for(ts_minute, kv, api_base, up) ==
    LET start == fmt_min(ts_minute)
        ck == banking_ck(start)
        result(raised, rows, store, asked) ==
            [ raised |-> raised, rows |-> rows, start |-> start,
              cache |-> IF store THEN cache_set(kv, ck, rows) ELSE kv, queried |-> asked ]
    IN IF cache_has(kv, ck) THEN result(FALSE, cache_get(kv, ck), FALSE, FALSE)
       ELSE IF ~api_base THEN result(TRUE, << >>, FALSE, FALSE)
       ELSE IF up.exception THEN result(TRUE, << >>, FALSE, TRUE)
       ELSE IF up.status \in {204, 404, 410} THEN result(FALSE, << >>, TRUE, TRUE)
       ELSE IF ~(200 <= up.status /\ up.status < 300) THEN result(TRUE, << >>, FALSE, TRUE)
       ELSE IF up.json = "no"
            THEN (IF looks_empty(up.text) THEN result(FALSE, << >>, TRUE, TRUE)
                  ELSE result(TRUE, << >>, FALSE, TRUE))
       ELSE IF up.json \in {"dict", "list"} THEN result(FALSE, up.rows, TRUE, TRUE)
       ELSE result(FALSE, << >>, TRUE, TRUE)

\* _pick(d, *keys, default=0) of _extract_fields; values are written as text
pick(rec, keys) ==
    LET good == { j \in 1..Len(keys) :
                    keys[j] \in DOMAIN rec /\ rec[keys[j]] \notin {"", "null", "NaN"} }
    IN IF good = {} THEN "0" ELSE rec[keys[Min(good)]]

\* _extract_fields(rec)
extract_fields(rec) ==
    [ adjusted_units |-> pick(rec, <<"adjusted_units">>),
      adjustment_charges |-> pick(rec, <<"adjustment_charges">>),
      banked_units |-> pick(rec, <<"banked_units", "banking_units">>),
      banking_cost |-> pick(rec, <<"banking_cost">>) ]

\* a faulty prev_ts: two windows back
prev_ts_two_back(ts) == AddMinutes(ts, 0 - 2 * BANKING_WINDOW_MINUTES)

\* ts - timedelta(minutes=BANKING_WINDOW_MINUTES), line 110
prev_ts(ts) == AddMinutes(ts, 0 - BANKING_WINDOW_MINUTES)

\* a faulty suffix: the retry is not reported
suffix_unmarked(used_ts, retried) == ""

\* suffix, line 128
suffix(used_ts, retried) ==
    IF retried THEN " (using previous block " \o fmt_hm(used_ts) \o ")" ELSE ""

\* lines 115-141 of handle_banking_info: the envelope built from the rows
banking_result(ts, rows, used_start, retried) ==
    LET used_ts == from_min(used_start)
        fields == extract_fields(rows[1])
    IN IF rows = << >>
       THEN err("NO_DATA",
                "No banking data found for " \o fmt_min(ts) \o ". Try a nearby block like "
                    \o fmt_hm(AddMinutes(ts, 0 - BANKING_WINDOW_MINUTES)) \o " or "
                    \o fmt_hm(AddMinutes(ts, BANKING_WINDOW_MINUTES)) \o ".",
                "banking", [ timestamp |-> fmt_min(ts) ])
       ELSE ok("banking",
               [ text |-> "Banking at " \o fmt_hm(used_ts) \o " on " \o DatePart(used_ts)
                          \o suffix(used_ts, retried)
                          \o ": Adjusted Units: " \o fields.adjusted_units
                          \o ", Adjustment Charges: " \o fields.adjustment_charges
                          \o ", Banked Units: " \o fields.banked_units
                          \o ", Banking Cost: " \o fields.banking_cost,
                 timestamp |-> used_ts,
                 adjusted_units |-> fields.adjusted_units,
                 adjustment_charges |-> fields.adjustment_charges,
                 banked_units |-> fields.banked_units,
                 banking_cost |-> fields.banking_cost ], EmptyDict)

\* a faulty except branch: a code of its own making
banking_failed_uncoded == err("UPSTREAM_ERROR", "Failed to fetch banking data.", "banking", EmptyDict)

\* the except branch of handle_banking_info
banking_failed == err("FETCH_FAILED", "Failed to fetch banking data.", "banking", EmptyDict)

\* one call of _fetch_rows_for(ts_minute) by the request, with what follows
\* it in handle_banking_info: retried is FALSE for the exact window
BankingFetch(ts, ts_minute, retried) ==
    \E up \in BankingReplies :
      \E r \in { fetch_rows_for(ts_minute, cache, cfg.api_base, up) } :
        /\ cache' = r.cache
        /\ queries' = IF r.queried THEN Append(queries, r.start) ELSE queries
        /\ fetches' = Append(fetches, [ start |-> r.start, raised |-> r.raised, rows |-> r.rows ])
        /\ IF r.raised THEN Respond(banking_failed)
           ELSE IF r.rows = << >> /\ ~retried
           THEN pc' = "banking_retry" /\ UNCHANGED << resp, status >>
           ELSE Respond(banking_result(ts, r.rows, r.start, retried))

\* handle_banking_info(date_str, time_obj, original_message) up to the answer
\* for the exact window (lines 98-105); with rows it goes on to its return
handle_banking_info ==
    /\ pc = "handle_banking_info"
    /\ \E ts \in { snap_time_to_minutes(build_timestamp(rt.date_str, rt.time_obj),
                                        BANKING_WINDOW_MINUTES) } :
         /\ bank' = ts
         /\ BankingFetch(ts, ts, FALSE)
    /\ UNCHANGED << cfg, msg, rt, exc, hl, call, thr >>

\* handle_banking_info from the smart retry on (lines 109-141)
banking_retry ==
    /\ pc = "banking_retry"
    /\ BankingFetch(bank, prev_ts(bank), TRUE)
    /\ UNCHANGED << cfg, msg, rt, bank, exc, hl, call, thr >>

\* handle_chat has answered; the server waits for the next request
reply_sent ==
    /\ pc = "done"
    /\ pc' = "idle"
    /\ msg' = ""
    /\ rt' = NoRoute
    /\ resp' = EmptyDict
    /\ status' = 0
    /\ bank' = None
    /\ queries' = << >>
    /\ fetches' = << >>
    /\ exc' = {}
    /\ hl' = NoLocals
    /\ UNCHANGED << cfg, cache, call, thr >>

\* an entry of the cache expires between two requests
cache_expire ==
    /\ pc = "idle"
    /\ \E key \in DOMAIN cache : cache' = cache_drop(cache, key)
    /\ UNCHANGED << cfg, pc, msg, rt, resp, status, bank, queries, fetches, exc, hl, call, thr >>

(***************************************************************************)
(* The specification.                                                      *)
(***************************************************************************)
Init ==
    /\ cfg \in Configs
    /\ pc = "idle"
    /\ msg = ""
    /\ rt = NoRoute
    /\ resp = EmptyDict
    /\ status = 0
    /\ cache = << >>
    /\ bank = None
    /\ queries = << >>
    /\ fetches = << >>
    /\ exc = {}
    /\ hl = NoLocals
    /\ call = NoCall
    /\ thr = << >>

Next ==
    \/ handle_chat
    \/ get_response
    \/ handle_plant_info
    \/ handle_procurement_info
    \/ generate_response
    \/ handle_banking_info
    \/ banking_retry
    \/ reply_sent
    \/ cache_expire

Spec == Init /\ [][Next]_vars

(***************************************************************************)
(* The functions of the code base called on their own, on arguments drawn  *)
(* from bounded sets; no request is in progress.                           *)
(***************************************************************************)
\* no request is served
NoRequest ==
    UNCHANGED << cfg, pc, msg, rt, resp, status, cache, bank, queries, fetches, exc, hl, thr >>

\* the source phrases of REPLACEMENTS and TYPO_FIXES, and other text
NormalizePhrases ==
    { REPLACEMENTS[j][1] : j \in 1..Len(REPLACEMENTS) }
    \cup { TYPO_FIXES[j][1] : j \in 1..Len(TYPO_FIXES) }
    \cup { "", "xyz", "3 & 4", "?!", "Ukai-6 &amp; 7", "gen  energy" }

\* the texts normalize is called with
NormalizeInputs ==
    { pre \o ph \o post : pre \in { "", "plant ", "The " }, ph \in NormalizePhrases,
                          post \in { "", " value", "?" } }

\* normalize(x) for a text x
normalize_call ==
    /\ call = NoCall
    /\ \E x \in NormalizeInputs :
         call' = [ fn |-> "normalize", x |-> x, result |-> normalize(x), again |-> FALSE ]
    /\ NoRequest

\* normalize(y) for a text y that normalize returned
normalize_again ==
    /\ call.fn = "normalize"
    /\ call' = [ fn |-> "normalize", x |-> call.result, result |-> normalize(call.result),
                 again |-> TRUE ]
    /\ NoRequest

\* the raw texts get_intent is called with
IntentInputs == {
    "xyz", "IEX Cost", "iex", "mod demand", "Plant Load", "block rate forecast",
    "Expected MOD rate", "purchase at block cost", "market price", "type", "demand" }

\* get_intent(tokens, raw_text), the semantic stage ending with stage_a
get_intent_call ==
    /\ call = NoCall
    /\ \E raw_text \in IntentInputs, stage_a \in { Raise, None } \cup INTENT_PHRASES_KEYS :
         call' = [ fn |-> "get_intent", raw_text |-> raw_text, stage_a |-> stage_a,
                   stage_b |-> stage_b_runs(stage_a),
                   result |-> get_intent(stage_a, stage_b(Lower(raw_text))) ]
    /\ NoRequest

\* the values SBERT_INTENT_THRESHOLD is configured with, in hundredths
Thresholds == { 40, 50, 55, 57, 60, 65, 70, 90 }

\* the raw texts predict_intent_sbert is called with: no cue, a time and a
\* price word, a plant cue, both
ThresholdInputs == { "xyz", "Dispatch rate at 10:00", "ukai station", "cost of Kadana 10:00" }

\* predict_intent_sbert(raw_text)[0] under a configured threshold, the
\* embedding comparison giving best_intent with best_score
predict_intent_sbert_call ==
    /\ call = NoCall
    /\ \E threshold \in Thresholds, raw_text \in ThresholdInputs,
          best_intent \in { "iex", "plant_info" }, best_score \in Scores \cup { 40, 45, 55, 95 } :
         call' = [ fn |-> "predict_intent_sbert", threshold |-> threshold,
                   raw_text |-> raw_text, best_score |-> best_score,
                   base |-> effective_base(threshold, normalize(raw_text)),
                   result |-> accept(best_intent, best_score,
                                     effective_base(threshold, normalize(raw_text))) ]
    /\ NoRequest

\* the times of day and the window sizes the snapping functions are called with
SnapTimes == { "00:00:00", "00:05:10", "00:14:59", "09:59:30", "13:50:20", "23:59:59" }

SnapWindows == { -5, 0, 1, 2, 7, 15, 60, 1440 }

SnapDate == "2027-09-30"

\* response_router._snap_time(time_obj, minutes)
router_snap_time_call ==
    /\ call = NoCall
    /\ \E time_obj \in SnapTimes, minutes \in SnapWindows :
         call' = [ fn |-> "snap", impl |-> "response_router._snap_time",
                   t |-> time_obj, date |-> SnapDate, minutes |-> minutes,
                   s |-> snap_time(time_obj, { minutes }), s_date |-> SnapDate ]
    /\ NoRequest

\* procurement_handler._snap_time(time_obj, minutes)
procurement_snap_time_call ==
    /\ call = NoCall
    /\ \E time_obj \in SnapTimes, minutes \in SnapWindows :
         call' = [ fn |-> "snap", impl |-> "procurement_handler._snap_time",
                   t |-> time_obj, date |-> SnapDate, minutes |-> minutes,
                   s |-> procurement_snap_time(time_obj, minutes), s_date |-> SnapDate ]
    /\ NoRequest

\* banking_handler._snap_time_to_minutes(t, minutes) on a datetime
snap_time_to_minutes_call ==
    /\ call = NoCall
    /\ \E time_obj \in SnapTimes, minutes \in SnapWindows :
         \E snapped \in { snap_time_to_minutes(build_timestamp(SnapDate, time_obj), minutes) } :
           call' = [ fn |-> "snap", impl |-> "banking_handler._snap_time_to_minutes",
                     t |-> time_obj, date |-> SnapDate, minutes |-> minutes,
                     s |-> TimePart(snapped), s_date |-> DatePart(snapped) ]
    /\ NoRequest

\* a month or a day as str(n) or as two digits
NumText(n, padded) == IF padded \/ n >= 10 THEN Pad2(n) ELSE Ch(DigitStr, n + 1)

\* the year-first tokens extract_date is called with: valid and invalid
\* calendar dates, alone or followed by a date in another form
DateYears == { 2027, 2028 }

DateMonths == { 1, 2, 3, 4, 12, 13 }

DateDays == { 1, 4, 12, 13, 29, 30, 31 }

DateTails == { "", " or 01/03/2027" }

year_first_token(y, m, d, sep, padded) ==
    Pad4(y) \o sep \o NumText(m, padded) \o sep \o NumText(d, padded)

\* date_utils.extract_date(text) on a text whose first date is year-first
extract_date_call ==
    /\ call = NoCall
    /\ \E y \in DateYears, m \in DateMonths, d \in DateDays, sep \in { "-", "/" },
          padded \in BOOLEAN, tail \in DateTails :
         /\ tail # "" => sep = "-"
         /\ call' = [ fn |-> "extract_date", y |-> y, m |-> m, d |-> d, tail |-> tail,
                      text |-> year_first_token(y, m, d, sep, padded) \o tail,
                      result |-> extract_date(year_first_token(y, m, d, sep, padded) \o tail) ]
    /\ NoRequest

\* the texts the field resolvers are called with
FieldInputs == { "plf of ukai", "plf and variable cost of ukai", "type and plf of ukai",
                 "rated capacity and max power", "var cost type", "xyz",
                 "energy banked", "generated cost and energy", "ppc and energy banked",
                 "last price energy generation", "purchase" }

\* the fields of the phrases of a table that the text contains
ContainedFields(table, msg_norm) ==
    { table[j][2] : j \in { h \in 1..Len(table) : Contains(table[h][1], msg_norm) } }

\* the fields of the longest phrases of a table that the text contains
LongestFields(table, msg_norm) ==
    LET hits == { h \in 1..Len(table) : Contains(table[h][1], msg_norm) }
    IN { table[j][2] : j \in { h \in hits : \A g \in hits :
                                   Len(table[g][1]) <= Len(table[h][1]) } }

\* plant_handler._pick_requested_field(normalize(text))
pick_requested_field_call ==
    /\ call = NoCall
    /\ \E text \in FieldInputs :
         \E message_norm \in { normalize(text) } :
           call' = [ fn |-> "pick_field", resolver |-> "plant_handler._pick_requested_field",
                     msg_norm |-> message_norm,
                     contained |-> ContainedFields(FIELD_MAP, message_norm),
                     longest |-> LongestFields(FIELD_MAP, message_norm),
                     result |-> IF pick_requested_field(message_norm) = 0 THEN None
                                ELSE FIELD_MAP[pick_requested_field(message_norm)][2] ]
    /\ NoRequest

\* procurement_handler._pick_field(normalize(text))
pick_field_call ==
    /\ call = NoCall
    /\ \E text \in FieldInputs, fz \in FuzzyPicks :
         \E message_norm \in { normalize(text) } :
           call' = [ fn |-> "pick_field", resolver |-> "procurement_handler._pick_field",
                     msg_norm |-> message_norm,
                     contained |-> ContainedFields(field_map, message_norm),
                     longest |-> LongestFields(field_map, message_norm),
                     result |-> pick_field(message_norm, fz) ]
    /\ NoRequest

\* the window _fetch_rows_for is called for and the caches it can find:
\* empty, holding rows or an empty list for the window, or holding another
\* window only
FetchWindow == "2027-09-30 00:15:00"

FetchCaches ==
    { << >>,
      [ k \in { "banking:2027-09-30 00:15" } |-> CHOOSE rs \in RowLists : TRUE ],
      [ k \in { "banking:2027-09-30 00:15" } |-> << >> ],
      [ k \in { "banking:2027-09-30 00:00" } |-> CHOOSE rs \in RowLists : TRUE ] }

\* banking_handler._fetch_rows_for(ts_minute), and a second call for the
\* same window on the cache the first one left
fetch_rows_for_call ==
    /\ call = NoCall
    /\ \E kv \in FetchCaches, api_base \in BOOLEAN, up \in BankingReplies, up2 \in BankingReplies :
         \E r \in { fetch_rows_for(FetchWindow, kv, api_base, up) } :
           call' = [ fn |-> "fetch_rows_for", ts_minute |-> FetchWindow, kv |-> kv,
                     api_base |-> api_base, up |-> up, r |-> r,
                     again |-> fetch_rows_for(FetchWindow, r.cache, api_base, up2) ]
    /\ NoRequest

\* the caller is done with what the function returned
call_done ==
    /\ call # NoCall
    /\ call' = NoCall
    /\ NoRequest

InitCalls ==
    /\ cfg = [ tz_ok |-> TRUE, api_base |-> TRUE, nlp_ok |-> TRUE ]
    /\ pc = "idle"
    /\ msg = ""
    /\ rt = NoRoute
    /\ resp = EmptyDict
    /\ status = 0
    /\ cache = << >>
    /\ bank = None
    /\ queries = << >>
    /\ fetches = << >>
    /\ exc = {}
    /\ hl = NoLocals
    /\ call = NoCall
    /\ thr = << >>

NextCalls ==
    \/ normalize_call
    \/ normalize_again
    \/ get_intent_call
    \/ predict_intent_sbert_call
    \/ router_snap_time_call
    \/ procurement_snap_time_call
    \/ snap_time_to_minutes_call
    \/ extract_date_call
    \/ pick_requested_field_call
    \/ pick_field_call
    \/ fetch_rows_for_call
    \/ call_done

SpecCalls == InitCalls /\ [][NextCalls]_vars

(***************************************************************************)
(* Banking requests served in parallel.  Each request thread runs          *)
(* handle_banking_info; thr[t] is its position in _fetch_rows_for          *)
(* (cache_get, requests.get, cache_set, return) with the locals ts,        *)
(* ts_minute, start, rows and retried.  The cache is shared, and so are    *)
(* the histories fetches and queries.                                      *)
(***************************************************************************)
MaxThreads == 2

Threads == 1..MaxThreads

\* the snapped timestamps the threads ask for; the second one's previous
\* block is the first
ConcurrentWindows == { "2027-09-30 00:15:00", "2027-09-30 00:30:00" }

\* the upstream answers with rows of the window it was asked for
rows_of(start, value) == << [ start_date |-> start, banking_units |-> value ] >>

ConcurrentReplies(start) ==
    { [ exception |-> TRUE, status |-> 0, json |-> "no", text |-> "", rows |-> << >> ],
      [ exception |-> FALSE, status |-> 204, json |-> "no", text |-> "", rows |-> << >> ],
      [ exception |-> FALSE, status |-> 500, json |-> "no", text |-> "", rows |-> << >> ],
      [ exception |-> FALSE, status |-> 200, json |-> "dict", text |-> "", rows |-> rows_of(start, "4") ],
      [ exception |-> FALSE, status |-> 200, json |-> "list", text |-> "", rows |-> rows_of(start, "9") ] }

ThreadIdle ==
    [ at |-> "idle", ts |-> None, ts_minute |-> None, start |-> None,
      rows |-> << >>, retried |-> FALSE ]

\* handle_banking_info up to its call of _fetch_rows_for(ts)
banking_call(t) ==
    /\ thr[t].at = "idle"
    /\ \E ts \in ConcurrentWindows :
         thr' = [ thr EXCEPT ![t] = [ at |-> "cache_get", ts |-> ts, ts_minute |-> ts,
                                      start |-> fmt_min(ts), rows |-> << >>,
                                      retried |-> FALSE ] ]
    /\ UNCHANGED << cfg, pc, msg, rt, resp, status, cache, bank, queries, fetches, exc, hl, call >>

\* cached = cache_get(ck); a hit returns the cached rows
fetch_cache_get(t) ==
    /\ thr[t].at = "cache_get"
    /\ thr' = IF cache_has(cache, banking_ck(thr[t].start))
              THEN [ thr EXCEPT ![t].at = "return",
                                ![t].rows = cache_get(cache, banking_ck(thr[t].start)) ]
              ELSE [ thr EXCEPT ![t].at = "requests_get" ]
    /\ UNCHANGED << cfg, pc, msg, rt, resp, status, cache, bank, queries, fetches, exc, hl, call >>

\* requests.get and the reading of its answer, up to the cache_set of the
\* branch taken or the raise
fetch_requests_get(t) ==
    /\ thr[t].at = "requests_get"
    /\ \E up \in ConcurrentReplies(thr[t].start) :
         \E r \in { fetch_rows_for(thr[t].ts_minute, << >>, cfg.api_base, up) } :
           /\ thr' = [ thr EXCEPT ![t].at = IF r.raised THEN "raised" ELSE "cache_set",
                                  ![t].rows = r.rows ]
           /\ queries' = IF r.queried THEN Append(queries, r.start) ELSE queries
           /\ fetches' = Append(fetches, [ start |-> r.start, raised |-> r.raised,
                                           rows |-> r.rows ])
    /\ UNCHANGED << cfg, pc, msg, rt, resp, status, cache, bank, exc, hl, call >>

\* cache_set(ck, rows, ttl_sec=...)
fetch_cache_set(t) ==
    /\ thr[t].at = "cache_set"
    /\ cache' = cache_set(cache, banking_ck(thr[t].start), thr[t].rows)
    /\ thr' = [ thr EXCEPT ![t].at = "return" ]
    /\ UNCHANGED << cfg, pc, msg, rt, resp, status, bank, queries, fetches, exc, hl, call >>

\* return rows, start; handle_banking_info asks for the previous block when
\* the rows of the first call are empty, and answers otherwise
fetch_return(t) ==
    /\ thr[t].at = "return"
    /\ thr' = IF thr[t].rows = << >> /\ ~thr[t].retried
              THEN [ thr EXCEPT ![t].at = "cache_get",
                                ![t].ts_minute = prev_ts(thr[t].ts),
                                ![t].start = fmt_min(prev_ts(thr[t].ts)),
                                ![t].retried = TRUE ]
              ELSE [ thr EXCEPT ![t].at = "answered" ]
    /\ UNCHANGED << cfg, pc, msg, rt, resp, status, cache, bank, queries, fetches, exc, hl, call >>

\* an entry of the shared cache reaches its time to live
concurrent_expire ==
    /\ \E key \in DOMAIN cache : cache' = cache_drop(cache, key)
    /\ UNCHANGED << cfg, pc, msg, rt, resp, status, bank, queries, fetches, exc, hl, call, thr >>

InitConcurrent ==
    /\ cfg = [ tz_ok |-> TRUE, api_base |-> TRUE, nlp_ok |-> TRUE ]
    /\ pc = "idle"
    /\ msg = ""
    /\ rt = NoRoute
    /\ resp = EmptyDict
    /\ status = 0
    /\ cache = << >>
    /\ bank = None
    /\ queries = << >>
    /\ fetches = << >>
    /\ exc = {}
    /\ hl = NoLocals
    /\ call = NoCall
    /\ thr = [ t \in Threads |-> ThreadIdle ]

NextConcurrent ==
    \/ \E t \in Threads : banking_call(t)
    \/ \E t \in Threads : fetch_cache_get(t)
    \/ \E t \in Threads : fetch_requests_get(t)
    \/ \E t \in Threads : fetch_cache_set(t)
    \/ \E t \in Threads : fetch_return(t)
    \/ concurrent_expire

SpecConcurrent == InitConcurrent /\ [][NextConcurrent]_vars

(***************************************************************************)
(* utils.safe_fetch_json, one call of it followed statement by statement.  *)
(* call holds the locals of the call: i counts the iterations of the loop  *)
(* begun, slept the time spent in time.sleep (tenths of a second),         *)
(* requests what each requests.get met, last_err the exception the loop    *)
(* kept, out how the call ended, value what it returned, raised what it    *)
(* raised.                                                                 *)
(***************************************************************************)
\* RETRY_BACKOFFS = [0.5, 1.0, 2.0], in tenths of a second
RETRY_BACKOFFS == << 5, 10, 20 >>

\* [0] + RETRY_BACKOFFS, the sequence the loop runs over
Backoffs == << 0 >> \o RETRY_BACKOFFS

\* the url safe_fetch_json is called with
FetchUrl == "http://api/plant"

\* FetchError(message, status=..., payload=...)
FetchError(message, status_code, payload) ==
    [ type |-> "FetchError", message |-> message, status |-> status_code, payload |-> payload ]

\* what one requests.get can meet: an exception of requests, or a response
\* whose body parses as JSON (json holds the parsed value) or does not
FetchReplies ==
    { [ kind |-> "exception", type |-> ty, message |-> ms, status_code |-> 0, text |-> "",
        json |-> {} ] :
          << ty, ms >> \in { << "ConnectionError", "connection refused" >>,
                             << "ReadTimeout", "read timed out" >> } }
    \cup { [ kind |-> "response", type |-> None, message |-> "", status_code |-> 404,
             text |-> "{\"detail\": \"not found\"}", json |-> { "detail" } ],
           [ kind |-> "response", type |-> None, message |-> "", status_code |-> 503,
             text |-> "busy", json |-> {} ],
           [ kind |-> "response", type |-> None, message |-> "", status_code |-> 200,
             text |-> "<html>", json |-> {} ],
           [ kind |-> "response", type |-> None, message |-> "", status_code |-> 200,
             text |-> "{\"a\": 1}", json |-> { "a" } ],
           [ kind |-> "response", type |-> None, message |-> "", status_code |-> 204,
             text |-> "{\"b\": 2}", json |-> { "b" } ] }

\* the try block of one iteration (lines 28-34): the value returned, or the
\* exception the except clause of line 35 receives
fetch_try(reply) ==
    IF reply.kind = "exception"
    THEN [ ok |-> FALSE, value |-> {},
           err |-> [ type |-> reply.type, message |-> reply.message, status |-> {},
                     payload |-> None ] ]
    ELSE IF reply.status_code >= 400
    THEN [ ok |-> FALSE, value |-> {},
           err |-> FetchError("HTTP " \o IntText(reply.status_code) \o " from " \o FetchUrl,
                              { reply.status_code }, reply.text) ]
    ELSE IF reply.json = {}
    THEN [ ok |-> FALSE, value |-> {},
           err |-> FetchError("Invalid JSON payload", {}, reply.text) ]
    ELSE [ ok |-> TRUE, value |-> reply.json, err |-> FetchError("", {}, None) ]

\* a faulty end of the call: the exception kept is raised as it is
final_error_reraise(last_err) == CHOOSE e \in last_err : TRUE

\* lines 36-38: what safe_fetch_json raises once the loop is over
final_error(last_err) ==
    IF last_err # {} /\ (CHOOSE e \in last_err : TRUE).type = "FetchError"
    THEN CHOOSE e \in last_err : TRUE
    ELSE FetchError("Network/unknown error for " \o FetchUrl, {},
                    IF last_err = {} THEN "None" ELSE (CHOOSE e \in last_err : TRUE).message)

\* safe_fetch_json(url) has been entered: last_err = None, the loop not begun
FetchEntered ==
    [ fn |-> "safe_fetch_json", i |-> 0, slept |-> 0, requests |-> << >>, last_err |-> {},
      out |-> "running", value |-> {}, raised |-> {} ]

\* one iteration of the loop (lines 25-35): sleep, request, return or keep
\* the exception
safe_fetch_json_iterate ==
    /\ call.fn = "safe_fetch_json" /\ call.out = "running"
    /\ call.i < Len(Backoffs)
    /\ \E reply \in FetchReplies :
         \E r \in { fetch_try(reply) } :
           call' = [ call EXCEPT !.i = @ + 1,
                                 !.slept = @ + Backoffs[call.i + 1],
                                 !.requests = Append(@, reply),
                                 !.out = IF r.ok THEN "return" ELSE @,
                                 !.value = IF r.ok THEN { r.value } ELSE @,
                                 !.last_err = IF r.ok THEN @ ELSE { r.err } ]
    /\ NoRequest

\* the loop is over (lines 36-38)
safe_fetch_json_raise ==
    /\ call.fn = "safe_fetch_json" /\ call.out = "running"
    /\ call.i = Len(Backoffs)
    /\ call' = [ call EXCEPT !.out = "raise", !.raised = { final_error(call.last_err) } ]
    /\ NoRequest

InitFetch ==
    /\ cfg = [ tz_ok |-> TRUE, api_base |-> TRUE, nlp_ok |-> TRUE ]
    /\ pc = "idle"
    /\ msg = ""
    /\ rt = NoRoute
    /\ resp = EmptyDict
    /\ status = 0
    /\ cache = << >>
    /\ bank = None
    /\ queries = << >>
    /\ fetches = << >>
    /\ exc = {}
    /\ hl = NoLocals
    /\ call = FetchEntered
    /\ thr = << >>

NextFetch ==
    \/ safe_fetch_json_iterate
    \/ safe_fetch_json_raise

\* the thread that called safe_fetch_json keeps running: time.sleep returns
\* and requests.get returns or raises within its timeout
SpecFetch == InitFetch /\ [][NextFetch]_vars /\ WF_vars(NextFetch)

(***************************************************************************)
(* Properties of the request pipeline.                                     *)
(***************************************************************************)
\* the text analysis of the request in progress
Text == Pipeline[chat_user_input(msg)]

\* the intents that require an explicit date and time
StrictIntents == { "procurement", "mod", "iex", "demand", "cost per block" }

\* get_response has run for the request in progress
Routed == rt.step # "idle"

\* the error code of the envelope get_response built itself ("" when it
\* built none or answered with success)
RouterCode == IF rt.out = "return" /\ ~rt.resp.ok THEN rt.resp.error.code ELSE ""

\* the error code of the answer handle_chat sent ("" for none or success)
FinalCode == IF pc = "done" /\ ~resp.ok THEN resp.error.code ELSE ""

\* the matched keywords get_response works with
Keywords == IF cfg.nlp_ok THEN Text.matched_keywords ELSE {}

\* the static lookup, the plant guard and the three keyword paths all miss
FastPathsMiss ==
    /\ Text.static = None
    /\ ~Text.marker
    /\ Keywords \cap plant_kw = {}
    /\ ~Text.banking /\ Keywords \cap banking_kw = {}
    /\ Keywords \cap procurement_kw = {} /\ ~Text.procurement

\* the request reached handle_banking_info
InBanking == Routed /\ rt.out = "call" /\ rt.handler = "handle_banking_info" /\ bank # None

\* s consists of white space only
IsBlank(s) == \A i \in 1..Len(s) : IsSpace(Ch(s, i))

\* C1 (as claimed): whenever get_response calls a handler for procurement,
\* mod, iex, demand or cost per block, both the date and the time were
\* extracted from the text by extract_date and extract_time; no such handler
\* is called with a value filled in by the router.
C1_OnlyExtractedDateTime ==
    (Routed /\ rt.out = "call" /\ rt.intent \in StrictIntents) =>
        Text.date_str # None /\ Text.time_obj # None

\* C2 (as claimed): get_response answers with intent "static" only when the
\* lowercased, punctuation-stripped whole input equals a keyword of the table.
C2_StaticOnlyOnExactMatch ==
    (Routed /\ rt.step = "static") =>
        \E j \in 1..Len(keyword_sorted) :
            static_cleaned(chat_user_input(msg)) = keyword_sorted[j][1]

\* C3: when the static lookup misses and the normalized text contains a
\* plant-metric marker, the classifier is never invoked, and (unless reading
\* the clock in the configured time zone raised on a now-word) get_response
\* calls handle_plant_info with a date and a time that are both present: the
\* extracted ones, else today and now from the clock.
C3_PlantGuard ==
    (Routed /\ Text.static = None /\ Text.marker) =>
        /\ rt.stage_a = "skipped"
        /\ "_now_tz" \notin rt.exc =>
              /\ rt.step = "plant_guard"
              /\ rt.out = "call" /\ rt.handler = "handle_plant_info"
              /\ rt.date_str # None /\ rt.time_obj # None
              /\ rt.date_str = IF Text.date_str # None THEN Text.date_str
                               ELSE DatePart(rt.clock)
              /\ rt.time_obj = IF Text.time_obj # None THEN Text.time_obj
                               ELSE SubSeq(TimePart(rt.clock), 1, 5) \o ":00"

\* C3 witness: the guard sent a request with neither date nor time to
\* handle_plant_info
C3_Witness ==
    /\ pc = "handle_plant_info" /\ rt.step = "plant_guard"
    /\ Text.date_str = None /\ Text.time_obj = None /\ ~Text.now
    /\ rt.date_str # None /\ rt.time_obj # None

\* C4: when a step of get_response establishes procurement, mod, iex, demand
\* or cost per block and the date or the time is absent, the answer is the
\* MISSING_DATE_OR_TIME error carrying that intent, and no handler runs and
\* nothing is fetched.
C4_MissingDateOrTime ==
    (Routed /\ rt.intent \in StrictIntents /\ (rt.date_str = None \/ rt.time_obj = None)) =>
        /\ rt.out = "return"
        /\ RouterCode = "MISSING_DATE_OR_TIME"
        /\ rt.resp.intent = rt.intent
        /\ pc = "done" /\ resp = rt.resp /\ status = 400
        /\ queries = << >> /\ fetches = << >>

\* C4 witness: the classifier established cost per block for a text with a
\* date and no time
C4_Witness ==
    /\ pc = "done" /\ rt.step = "classifier" /\ rt.intent = "cost per block"
    /\ rt.date_str # None /\ rt.time_obj = None
    /\ FinalCode = "MISSING_DATE_OR_TIME"

\* C5 (as claimed): a request during which an unexpected exception was raised
\* anywhere is answered with the INTERNAL error.
C5_UnexpectedExceptionIsInternal ==
    (pc = "done" /\ exc # {}) => FinalCode = "INTERNAL"

\* C6 (as claimed): get_response returns UNRECOGNIZED exactly when every step
\* misses (fast paths, both classifier stages, second-pass phrases), never
\* with an intent, and a request whose established intent has no handler
\* (cost per block) is answered with UNSUPPORTED_INTENT.
C6_UnsupportedWhenever ==
    (Routed /\ rt.out # "raise") =>
        /\ RouterCode = "UNRECOGNIZED" <=>
              /\ FastPathsMiss
              /\ rt.stage_a \in { None, Raise } /\ Text.rule = None
              /\ ~Text.phrases
        /\ RouterCode = "UNRECOGNIZED" => rt.resp.intent = None
        /\ (pc = "done" /\ rt.intent = "cost per block") => FinalCode = "UNSUPPORTED_INTENT"

\* C6 (amended): get_response, when it does not raise, returns UNRECOGNIZED
\* exactly when the fast paths miss, get_intent yields no intent (both stages
\* miss, or the semantic stage raises) and the second-pass phrases miss; that
\* envelope carries no intent; get_response never builds UNSUPPORTED_INTENT
\* itself; and a request ends with UNSUPPORTED_INTENT exactly when its intent
\* is cost per block and it came with both date and time (generate_response
\* answers it), a cost per block request without them getting
\* MISSING_DATE_OR_TIME.
C6_Unrecognized ==
    (Routed /\ rt.out # "raise") =>
        /\ RouterCode = "UNRECOGNIZED" <=>
              /\ FastPathsMiss
              /\ rt.stage_a = Raise \/ (rt.stage_a = None /\ Text.rule = None)
              /\ ~Text.phrases
        /\ RouterCode = "UNRECOGNIZED" => rt.resp.intent = None /\ rt.intent = None
        /\ RouterCode # "UNSUPPORTED_INTENT"
        /\ pc = "done" =>
              /\ FinalCode = "UNSUPPORTED_INTENT" <=>
                    rt.intent = "cost per block" /\ rt.out = "call"
              /\ (rt.intent = "cost per block" /\ rt.out = "return") =>
                    FinalCode = "MISSING_DATE_OR_TIME"

\* C6 witness: a cost per block request with date and time was answered with
\* UNSUPPORTED_INTENT by generate_response
C6_Witness ==
    /\ pc = "done" /\ rt.intent = "cost per block" /\ rt.handler = "generate_response"
    /\ Text.date_str # None /\ Text.time_obj # None
    /\ FinalCode = "UNSUPPORTED_INTENT" /\ resp.intent = "cost per block"

\* C7: in handle_banking_info, when the exact window gave no rows and the
\* window before it gave rows, the answer is a success that says it uses the
\* previous block and whose timestamp is the previous window; when the exact
\* window gave rows, the answer is a success for the exact window without that
\* mark; when both gave none, the answer is NO_DATA for the exact window and
\* its message names the window before and the window after.
C7_SmartRetry ==
    (InBanking /\ pc = "done" /\ \A k \in 1..Len(fetches) : ~fetches[k].raised) =>
        /\ fetches[1].start = fmt_min(bank)
        /\ fetches[1].rows # << >> =>
              /\ Len(fetches) = 1
              /\ resp.ok /\ resp.intent = "banking"
              /\ resp.data.timestamp = bank
              /\ ~Contains("using previous block", resp.data.text)
        /\ fetches[1].rows = << >> =>
              /\ Len(fetches) = 2
              /\ fetches[2].start = fmt_min(AddMinutes(bank, 0 - BANKING_WINDOW_MINUTES))
              /\ fetches[2].rows # << >> =>
                    /\ resp.ok /\ resp.intent = "banking"
                    /\ resp.data.timestamp = AddMinutes(bank, 0 - BANKING_WINDOW_MINUTES)
                    /\ Contains("(using previous block "
                                  \o fmt_hm(AddMinutes(bank, 0 - BANKING_WINDOW_MINUTES)) \o ")",
                                resp.data.text)
              /\ fetches[2].rows = << >> =>
                    /\ FinalCode = "NO_DATA"
                    /\ resp.error.details.timestamp = fmt_min(bank)
                    /\ Contains(fmt_min(bank), resp.error.message)
                    /\ Contains(fmt_hm(AddMinutes(bank, 0 - BANKING_WINDOW_MINUTES)) \o " or "
                                  \o fmt_hm(AddMinutes(bank, BANKING_WINDOW_MINUTES)),
                                resp.error.message)

\* C7 witness: the exact window, the first of a day, gave no rows and the
\* last window of the day before gave rows
C7_Witness ==
    /\ InBanking /\ pc = "done" /\ resp.ok
    /\ Len(fetches) = 2 /\ fetches[2].rows # << >>
    /\ DatePart(resp.data.timestamp) # DatePart(bank)

\* C8: one handle_banking_info request calls _fetch_rows_for at most twice,
\* first for the exact snapped window and then, only when that returned no
\* rows, for the window exactly one window size earlier; the upstream is
\* asked for no other window and for none twice; and when a fetch fails the
\* answer is FETCH_FAILED.
C8_AtMostTwoWindows ==
    InBanking =>
        /\ Len(fetches) <= 2 /\ Len(queries) <= Len(fetches)
        /\ Len(fetches) >= 1 => fetches[1].start = fmt_min(bank)
        /\ Len(fetches) = 2 =>
              /\ ~fetches[1].raised /\ fetches[1].rows = << >>
              /\ fetches[2].start = fmt_min(AddMinutes(bank, 0 - BANKING_WINDOW_MINUTES))
        /\ \A k \in 1..Len(queries) :
              /\ queries[k] \in { fmt_min(bank),
                                  fmt_min(AddMinutes(bank, 0 - BANKING_WINDOW_MINUTES)) }
              /\ \A j \in 1..Len(queries) : queries[j] = queries[k] => j = k
              /\ queries[k] # fmt_min(bank) => (k = Len(queries) /\ Len(fetches) = 2)
        /\ (pc = "done" /\ \E k \in 1..Len(fetches) : fetches[k].raised) =>
              FinalCode = "FETCH_FAILED"

\* C8 witness: the upstream was asked for the exact window, had no rows, and
\* failed on the window before
C8_Witness ==
    /\ InBanking /\ pc = "done" /\ Len(queries) = 2
    /\ ~fetches[1].raised /\ fetches[2].raised
    /\ FinalCode = "FETCH_FAILED"

\* C9: a request whose msg is empty or white space only is answered with the
\* EMPTY_REQUEST error by handle_chat, and get_response, the handlers and the
\* upstream are never reached.
C9_EmptyRequest ==
    (pc # "idle" /\ IsBlank(msg)) =>
        /\ pc = "done" /\ FinalCode = "EMPTY_REQUEST" /\ status = 400
        /\ rt = NoRoute /\ bank = None /\ queries = << >> /\ fetches = << >>

\* C9 witness: a request of two blanks was rejected
C9_Witness == pc = "done" /\ msg = "  " /\ FinalCode = "EMPTY_REQUEST"

\* C10 (as claimed): every answer has the keys ok, intent and meta; a success
\* has data and no error; a failure has no data and an error with code,
\* message and details.
C10_UniformEnvelope ==
    pc = "done" =>
        /\ { "ok", "intent", "meta" } \subseteq DOMAIN resp
        /\ resp.ok => "data" \in DOMAIN resp /\ "error" \notin DOMAIN resp
        /\ ~resp.ok =>
              /\ "data" \notin DOMAIN resp /\ "error" \in DOMAIN resp
              /\ { "code", "message", "details" } \subseteq DOMAIN resp.error

\* the error codes of the envelope contract
ErrorCodes == {
    "EMPTY_REQUEST", "UNRECOGNIZED", "UNSUPPORTED_INTENT", "MISSING_PARAM",
    "MISSING_DATE_OR_TIME", "PLANT_NAME_MISSING", "PLANT_NOT_FOUND", "NO_DATA",
    "FETCH_FAILED", "INTERNAL" }

\* C11: the error code of every failure envelope, the ones get_response
\* builds itself and the ones handle_chat answers with (its own and those of
\* the handlers), is one of the ten codes of the closed set.
C11_ClosedErrorCodes ==
    /\ (rt.out = "return" /\ ~rt.resp.ok) => rt.resp.error.code \in ErrorCodes
    /\ (pc = "done" /\ ~resp.ok) => resp.error.code \in ErrorCodes

\* C11 witness: handle_banking_info answered a failed fetch with FETCH_FAILED
C11_Witness ==
    /\ InBanking /\ pc = "done" /\ ~resp.ok
    /\ \E k \in 1..Len(fetches) : fetches[k].raised
    /\ resp.error.code = "FETCH_FAILED"

\* the request was answered by handle_plant_info or handle_procurement_info
InCatalogHandler ==
    /\ pc = "done" /\ Routed /\ rt.out = "call"
    /\ rt.handler \in { "handle_plant_info", "handle_procurement_info" }

\* the plants of the payload the handler worked on
FetchedPlants ==
    IF hl.data = {} THEN << >>
    ELSE IF rt.handler = "handle_plant_info" THEN CHOOSE d \in hl.data : TRUE
    ELSE (CHOOSE d \in hl.data : TRUE).plants

\* C12 (as claimed): handle_plant_info and handle_procurement_info answer
\* with success only when a field was resolved from the text, and answer
\* MISSING_PARAM when the payload arrived and no field was resolved; a success
\* for one plant is given only when a plant name was extracted from the text
\* and the handler settled on a record of the fetched list whose value for
\* the field is usable (not None, "", "null" or "NaN"); the failures for the
\* other cases are PLANT_NAME_MISSING, PLANT_NOT_FOUND and NO_DATA.
C12_NoPartialSuccess ==
    InCatalogHandler =>
        /\ resp.ok => hl.field # None
        /\ (hl.data # {} /\ hl.field = None) <=> FinalCode = "MISSING_PARAM"
        /\ (resp.ok /\ "plant" \in DOMAIN resp.data) =>
              /\ hl.plant_query \notin { None, "" }
              /\ \E k \in 1..Len(FetchedPlants) :
                    /\ hl.best = { FetchedPlants[k] }
                    /\ hl.field \in DOMAIN FetchedPlants[k]
                    /\ FetchedPlants[k][hl.field] \notin Unusable
        /\ FinalCode = "PLANT_NAME_MISSING" => hl.plant_query \in { None, "" }
        /\ FinalCode = "PLANT_NOT_FOUND" => (hl.plant_query # None /\ hl.best = {})

\* a catalog name matches a query: after normalization they are equal, one
\* contains the other, or their similarity ratio is at least 0.75
RecordMatches(name, query) ==
    LET a == normalize(name)
        b == normalize(query)
    IN /\ a # "" /\ b # ""
       /\ (a = b \/ Contains(a, b) \/ Contains(b, a) \/ ratio_ok(a, b))

\* the name a handler reads from a record
RecordName(plant) ==
    IF rt.handler = "handle_plant_info" THEN plant_name_of(plant) ELSE pname_of(plant)

\* the positions of the fetched records that match the extracted plant name
MatchingRecords ==
    { k \in 1..Len(FetchedPlants) :
        RecordMatches(RecordName(FetchedPlants[k]), ReplaceLit(hl.plant_query, "/", " ")) }

\* C24: once a handler has a fetched plant list and a plant name from the
\* text, the record it settles on is the first one in list order that
\* matches, whatever the later records are, and it answers PLANT_NOT_FOUND
\* only when no record matches.
C24_FirstMatchWins ==
    (InCatalogHandler /\ hl.plant_query \notin { None, "" }) =>
        /\ hl.best # {} =>
              /\ MatchingRecords # {}
              /\ hl.best = { FetchedPlants[Min(MatchingRecords)] }
        /\ FinalCode = "PLANT_NOT_FOUND" => MatchingRecords = {}
        /\ (MatchingRecords # {} /\ FetchedPlants # << >>) => hl.best # {}

\* the first record matches by containment and is answered for, although
\* the second record's name equals the query
C24_Witness ==
    /\ InCatalogHandler /\ rt.handler = "handle_plant_info"
    /\ hl.plant_query = "ukai"
    /\ Len(FetchedPlants) = 2
    /\ plant_name_of(FetchedPlants[2]) = "Ukai"
    /\ hl.best = { FetchedPlants[1] }
    /\ resp.ok /\ resp.data.plant = "Ukai Hydro"

\* C25: when handle_plant_info or handle_procurement_info has returned, the
\* records of the fetched plant list are as the collaborator sent them: no
\* key was added and no value overwritten.
C25_RecordsNotMutated ==
    (InCatalogHandler /\ hl.data # {}) => hl.all_plants = FetchedPlants

\* C26: a request whose intent is established as cost per block never ends
\* in success: when the date or the time is absent get_response returns
\* MISSING_DATE_OR_TIME; when both are present it calls generate_response,
\* which asks no upstream and answers UNSUPPORTED_INTENT.  get_response
\* itself never returns UNSUPPORTED_INTENT.
C26_CostPerBlockNeverSucceeds ==
    /\ RouterCode # "UNSUPPORTED_INTENT"
    /\ (Routed /\ rt.intent = "cost per block") =>
          /\ (rt.date_str = None \/ rt.time_obj = None) =>
                (rt.out = "return" /\ RouterCode = "MISSING_DATE_OR_TIME")
          /\ (rt.date_str # None /\ rt.time_obj # None) =>
                (rt.out = "call" /\ rt.handler = "generate_response")
          /\ pc = "done" =>
                /\ ~resp.ok
                /\ queries = << >> /\ fetches = << >>
                /\ FinalCode = IF rt.out = "call" THEN "UNSUPPORTED_INTENT"
                               ELSE "MISSING_DATE_OR_TIME"

\* generate_response ran for cost per block with a date and a time, while
\* the collaborator API was configured, and asked nothing
C26_Witness ==
    /\ pc = "done" /\ rt.intent = "cost per block" /\ rt.out = "call"
    /\ rt.handler = "generate_response" /\ cfg.api_base
    /\ rt.date_str # None /\ rt.time_obj # None
    /\ queries = << >>
    /\ ~resp.ok /\ resp.error.code = "UNSUPPORTED_INTENT"

\* the classifier was reached and its semantic stage raised
SemanticStageRaised ==
    Routed /\ rt.out # "raise" /\ FastPathsMiss /\ rt.stage_a = Raise

\* C27 (as claimed): when the semantic stage raises, get_intent returns no
\* intent without consulting the rule table, and a request the rule table
\* alone would have classified ends as UNRECOGNIZED; the raise is never
\* reported as INTERNAL.
C27_RaiseEndsUnrecognized ==
    SemanticStageRaised =>
        /\ rt.step # "classifier"
        /\ Text.rule # None => (RouterCode = "UNRECOGNIZED" /\ rt.intent = None)
        /\ (pc = "done" /\ FinalCode = "INTERNAL") => exc # rt.exc

\* C27 (amended): when the semantic stage raises, get_intent returns no
\* intent without consulting the rule table; the request ends as
\* UNRECOGNIZED, whatever the rule table holds for it, unless its normalized
\* text contains a second-pass procurement phrase, and then get_response
\* handles it as procurement (MISSING_DATE_OR_TIME or handle_procurement_info);
\* the raise is never reported as INTERNAL (only a later exception of the
\* handler is).
C27_RaiseSkipsRules ==
    SemanticStageRaised =>
        /\ rt.step # "classifier"
        /\ "predict_intent_sbert" \in rt.exc
        /\ ~Text.phrases =>
              (rt.out = "return" /\ RouterCode = "UNRECOGNIZED" /\ rt.intent = None)
        /\ Text.phrases =>
              /\ rt.step = "second_pass"
              /\ \/ rt.out = "return" /\ RouterCode = "MISSING_DATE_OR_TIME"
                      /\ rt.resp.intent = "procurement"
                 \/ rt.out = "call" /\ rt.handler = "handle_procurement_info"
        /\ (pc = "done" /\ FinalCode = "INTERNAL") => exc # rt.exc

\* the rule table has iex for the text, the semantic stage raised, and the
\* answer is UNRECOGNIZED
C27_Witness ==
    /\ SemanticStageRaised /\ pc = "done"
    /\ Text.rule = "iex" /\ ~Text.phrases
    /\ FinalCode = "UNRECOGNIZED" /\ resp.intent = None

\* the classifier (get_intent) was called for the request
ClassifierReached == Routed /\ rt.stage_a # "skipped"

\* C29: get_intent is called only when the static lookup, the plant guard
\* and the plant, banking and procurement keyword tests all missed.  A
\* request whose normalized text contains energy never reaches it: it ends at
\* the procurement keyword test or at an earlier step (the static answer,
\* the clock read for a now-word, the plant guard, the plant or banking
\* keywords), and its intent is never iex.
C29_ClassifierLast ==
    /\ ClassifierReached =>
          /\ FastPathsMiss
          /\ rt.step \in { "classifier", "second_pass", "none" }
          /\ ~Contains("energy", Text.norm)
    /\ (Routed /\ Contains("energy", Text.norm)) =>
          /\ rt.stage_a = "skipped"
          /\ rt.step \in { "static", "fill_now", "plant_guard", "plant_kw", "banking_kw",
                            "procurement_kw" }
          /\ rt.intent # "iex"
          /\ (pc = "done" /\ "intent" \in DOMAIN resp) => resp.intent # "iex"
          /\ \A i \in 1..Len(queries) : queries[i] # "/iex/range"

\* C29 witness: indian energy exchange price with a date and a time, for
\* which the rule table says iex, went to handle_procurement_info on the
\* keyword energy
C29_Witness ==
    /\ Routed /\ Text.norm = "indian energy exchange price at 00:05 on 2027-09-30"
    /\ Text.rule = "iex" /\ Text.static = None
    /\ rt.step = "procurement_kw" /\ rt.handler = "handle_procurement_info"
    /\ rt.stage_a = "skipped"

\* C19: a process whose POWCAST_API_BASE is unset never serves a request, so
\* no request fails because of the missing setting: such a process stays
\* idle and none of its replies is a fetch failure.
C19_ConfigCheckedAtStartup ==
    ~cfg.api_base =>
        /\ pc = "idle"
        /\ status = 0
        /\ ~(resp # EmptyDict /\ ~resp.ok /\ resp.error.code = "FETCH_FAILED")

\* C14: a request whose normalized text contains a banking keyword is never
\* sent to handle_procurement_info and never answered with intent
\* procurement; unless the static lookup, the plant guard or the plant
\* keywords took it (or reading the clock in the configured time zone
\* raised), get_response calls handle_banking_info for it at the banking step.
C14_BankingSplit ==
    (Routed /\ Text.banking) =>
        /\ rt.handler # "handle_procurement_info" /\ rt.intent # "procurement"
        /\ (pc = "done" /\ "intent" \in DOMAIN resp) => resp.intent # "procurement"
        /\ (rt.step \notin { "static", "plant_guard", "plant_kw" } /\ "_now_tz" \notin rt.exc) =>
              /\ rt.step = "banking_kw" /\ rt.intent = "banking"
              /\ rt.out = "call" /\ rt.handler = "handle_banking_info"
              /\ rt.stage_a = "skipped"

\* C14 witness: a text with both a banking keyword and the procurement
\* keyword energy was sent to handle_banking_info
C14_Witness ==
    /\ pc = "handle_banking_info" /\ rt.step = "banking_kw"
    /\ Text.banking /\ Text.procurement /\ "energy" \in Keywords

(***************************************************************************)
(* Properties of the functions called on their own.                        *)
(***************************************************************************)
\* C13 (as claimed): normalize is idempotent: called on a text it returned,
\* it returns that text unchanged.
C13_NormalizeIdempotent ==
    (call.fn = "normalize" /\ call.again) => call.result = call.x

\* the priority order of the lexical stage
StageBOrder == << "plant_info", "procurement", "mod", "iex", "cost per block", "demand" >>

\* C15: get_intent evaluates its lexical stage only when the semantic stage
\* returned no intent; it then returns the first intent, in the order
\* plant_info, procurement, mod, iex, cost per block, demand, one of whose
\* keywords is contained in the lowercased raw text, and None only when no
\* intent has such a keyword; when the semantic stage returned an intent,
\* that intent is the result.
C15_ClassifierStaging ==
    call.fn = "get_intent" =>
        LET low == Lower(call.raw_text)
            hits == { j \in 1..Len(StageBOrder) :
                        \E i \in 1..Len(intents) :
                            intents[i][1] = StageBOrder[j] /\ AnyIn(intents[i][2], low) }
        IN /\ call.stage_b => call.stage_a = None
           /\ call.stage_b =>
                 /\ hits # {} => call.result = StageBOrder[Min(hits)]
                 /\ hits = {} <=> call.result = None
           /\ call.stage_a \in INTENT_PHRASES_KEYS => (~call.stage_b /\ call.result = call.stage_a)

\* C15 witness: the semantic stage rejected a text with keywords of
\* procurement and of iex, and the result is procurement
C15_Witness ==
    /\ call.fn = "get_intent" /\ call.stage_b /\ call.raw_text = "IEX Cost"
    /\ call.result = "procurement"

\* C16 (as claimed): for every configured threshold and every text, the
\* threshold predict_intent_sbert accepts at is at most the configured one, at
\* most 0.10 below it and at least 0.55, and an intent is returned exactly
\* when the best score reaches it.
C16_ThresholdBounds ==
    call.fn = "predict_intent_sbert" =>
        /\ call.base <= call.threshold
        /\ call.base >= call.threshold - 10
        /\ call.base >= 55
        /\ call.result # None <=> call.best_score >= call.base

SecondOfDay(t) == MinuteOfDay(t) * 60 + SecondOf(t)

\* C17: for a window of more than one minute every snapping function floors:
\* the snapped time s is on the same day and not after t, less than one
\* window before t, its minute of the day is a multiple of the window and its
\* seconds are 0; it never rounds up to the next window.
C17_SnapFloors ==
    (call.fn = "snap" /\ call.minutes > 1) =>
        /\ call.s_date = call.date
        /\ SecondOfDay(call.s) <= SecondOfDay(call.t)
        /\ SecondOfDay(call.t) - SecondOfDay(call.s) < call.minutes * 60
        /\ MinuteOfDay(call.s) % call.minutes = 0
        /\ SecondOf(call.s) = 0

\* a time in the second half of a window that does not divide the hour is
\* floored
C17_Witness ==
    /\ call.fn = "snap"
    /\ call.minutes = 7
    /\ call.t = "13:50:20"
    /\ call.s = "13:46:00"

\* C18: for a window of at most one minute every snapping function keeps
\* the hour and the minute and sets the seconds to 0.
C18_SmallWindowTruncates ==
    (call.fn = "snap" /\ call.minutes <= 1) =>
        /\ call.s_date = call.date
        /\ HourOf(call.s) = HourOf(call.t)
        /\ MinuteOf(call.s) = MinuteOf(call.t)
        /\ SecondOf(call.s) = 0

\* C21: extract_date on a valid year-first token YYYY-M-D or YYYY/M/D alone
\* returns the ISO date of year YYYY, month M and day D, also when D <= 12.
C21_YearFirstKeepsMonthDay ==
    (call.fn = "extract_date" /\ call.tail = "" /\ ValidDate(call.y, call.m, call.d)) =>
        call.result = IsoFormat(call.y, call.m, call.d)

\* C22: when the first date of the text is a year-first token that is no
\* valid calendar date, extract_date returns None: the token is not read
\* another way and no later pattern supplies a date.
C22_InvalidYearFirstAbsent ==
    (call.fn = "extract_date" /\ ~ValidDate(call.y, call.m, call.d)) =>
        call.result = None

\* C23: when the normalized text contains phrases of the field table that
\* map to different fields, the plant resolver and the procurement resolver
\* both return the field of the longest contained phrase.
C23_LongestPhraseWins ==
    (call.fn = "pick_field" /\ Cardinality(call.contained) > 1) =>
        call.result \in call.longest

\* the upstream gave a definite answer: 204, 404 or 410, or a 2xx whose body
\* is JSON or looks empty
DefiniteAnswer(api_base, up) ==
    /\ api_base /\ ~up.exception
    /\ \/ up.status \in { 204, 404, 410 }
       \/ /\ up.status >= 200 /\ up.status < 300
          /\ \/ up.json # "no"
             \/ Lower(Strip(up.text)) \in { "", "[]", "{}", "null", "none" }

\* C28: _fetch_rows_for changes the cache only on a definite answer.  On a
\* cache hit it returns the cached rows, asks nothing and leaves the cache
\* alone.  On a miss with a definite answer it stores the rows it returns,
\* an empty list too, under the key of the window and touches no other key,
\* and a second call for the window is then answered from the cache without
\* a request.  On a miss without a definite answer it raises and leaves the
\* cache as it was.
C28_CacheOnlyOnDefiniteAnswer ==
    call.fn = "fetch_rows_for" =>
        LET ck == "banking:" \o SubSeq(call.ts_minute, 1, 16)
            hit == ck \in DOMAIN call.kv
        IN /\ hit =>
                /\ ~call.r.raised /\ ~call.r.queried
                /\ call.r.rows = call.kv[ck] /\ call.r.cache = call.kv
           /\ (~hit /\ DefiniteAnswer(call.api_base, call.up)) =>
                /\ ~call.r.raised
                /\ DOMAIN call.r.cache = DOMAIN call.kv \cup { ck }
                /\ call.r.cache[ck] = call.r.rows
                /\ \A k \in DOMAIN call.kv : call.r.cache[k] = call.kv[k]
                /\ ~call.again.raised /\ ~call.again.queried
                /\ call.again.rows = call.r.rows /\ call.again.cache = call.r.cache
           /\ (~hit /\ ~DefiniteAnswer(call.api_base, call.up)) =>
                /\ call.r.raised /\ call.r.cache = call.kv
           /\ (call.up.status \in { 204, 404, 410 } /\ ~call.up.exception) =>
                (hit \/ ~call.api_base \/ call.r.rows = << >>)

\* a 2xx answer whose body is not JSON but looks empty was cached as an
\* empty list next to another window's entry, and the second call for the
\* window was answered from the cache
C28_Witness ==
    /\ call.fn = "fetch_rows_for"
    /\ DOMAIN call.kv = { "banking:2027-09-30 00:00" }
    /\ call.up.status = 200 /\ call.up.json = "no" /\ call.up.text = " None "
    /\ call.api_base /\ ~call.up.exception /\ ~call.r.raised
    /\ call.r.cache["banking:2027-09-30 00:15"] = << >>
    /\ ~call.again.queried /\ call.again.rows = << >>

\* the request met a response below 400 whose body parsed
FetchSucceeded(reply) ==
    reply.kind = "response" /\ reply.status_code < 400 /\ reply.json # {}

\* e is a FetchError telling of the failure reply
CarriesFailure(e, reply) ==
    /\ e.type = "FetchError"
    /\ reply.kind = "exception" =>
          (e.status = {} /\ e.payload = reply.message)
    /\ (reply.kind = "response" /\ reply.status_code >= 400) =>
          (e.status = { reply.status_code } /\ e.payload = reply.text)
    /\ (reply.kind = "response" /\ reply.status_code < 400) =>
          (e.message = "Invalid JSON payload" /\ e.status = {} /\ e.payload = reply.text)

\* what holds at every point of a call of safe_fetch_json
FetchSafe ==
    LET n == Len(call.requests)
    IN /\ n <= 4 /\ n = call.i
       /\ \A k \in 1..(n - 1) : ~FetchSucceeded(call.requests[k])
       /\ call.out = "running" => \A k \in 1..n : ~FetchSucceeded(call.requests[k])
       /\ call.out = "return" =>
             /\ n >= 1 /\ FetchSucceeded(call.requests[n])
             /\ call.value = { call.requests[n].json } /\ call.raised = {}
       /\ call.out = "raise" =>
             /\ n = 4 /\ ~FetchSucceeded(call.requests[n])
             /\ call.value = {} /\ Cardinality(call.raised) = 1
             /\ \A e \in call.raised : CarriesFailure(e, call.requests[n])
       /\ call.slept <= 35

\* C30: safe_fetch_json always terminates, after at most 4 requests.  It
\* returns the parsed JSON of the first request that succeeds and makes no
\* request after it; when all 4 fail (exception of requests, status >= 400,
\* body that is not JSON) it raises a FetchError that carries the failure of
\* the last request, and it raises nothing else.
C30_FetchTerminates ==
    /\ [](call.fn = "safe_fetch_json" => FetchSafe)
    /\ <>(call.fn = "safe_fetch_json" /\ call.out \in { "return", "raise" })

\* C30 witness: the first request met a 404, the fourth a connection error,
\* and the call raised a FetchError with the text of that error
C30_Witness ==
    /\ call.fn = "safe_fetch_json" /\ call.out = "raise"
    /\ call.requests[1].status_code = 404
    /\ call.requests[4].kind = "exception"
    /\ \E e \in call.raised :
         e.type = "FetchError" /\ e.payload = "connection refused" /\ e.status = {}

(***************************************************************************)
(* Properties of the banking requests served in parallel                   *)
(***************************************************************************)
\* the rows were the result of a fetch for the window start
FetchedFor(start, rows) ==
    \E k \in 1..Len(fetches) :
        /\ ~fetches[k].raised
        /\ fetches[k].start = start
        /\ fetches[k].rows = rows

\* the window a cache key stands for
WindowOfKey(key) == SubSeq(key, Len("banking:") + 1, Len(key))

\* C20: in every interleaving of the banking requests, the value stored under
\* the cache key of a window is a row list that was fetched for that window
\* and holds no row of another window, and the rows a request gets back from
\* _fetch_rows_for were fetched for the window it asked for.
C20_CacheKeepsWindows ==
    /\ \A key \in DOMAIN cache :
          \E start \in { WindowOfKey(key) } :
              /\ FetchedFor(start, cache[key])
              /\ \A i \in 1..Len(cache[key]) : cache[key][i].start_date = start
    /\ \A t \in Threads :
          thr[t].at \in { "return", "answered" } =>
              /\ FetchedFor(thr[t].start, thr[t].rows)
              /\ \A i \in 1..Len(thr[t].rows) : thr[t].rows[i].start_date = thr[t].start

\* two requests missed the same window, each fetched, and the later
\* cache_set replaced the rows the earlier one had stored
C20_Witness ==
    \E t, u \in Threads :
        /\ t # u
        /\ thr[t].start = thr[u].start
        /\ thr[t].at = "answered" /\ thr[u].at = "answered"
        /\ thr[t].rows # << >> /\ thr[u].rows # << >>
        /\ thr[t].rows # thr[u].rows
        /\ FetchedFor(thr[t].start, thr[t].rows)
        /\ FetchedFor(thr[u].start, thr[u].rows)
        /\ banking_ck(thr[u].start) \in DOMAIN cache
        /\ cache[banking_ck(thr[u].start)] = thr[u].rows

====
